---- MODULE Spec2Model ----
(***************************************************************************)
(* Model of GoForge's test-skeleton generator (package testing):           *)
(* GenerateTests and generateTestForFile, with the parts of path/filepath, *)
(* strings, os, go/ast and text/template they rely on.                     *)
(*                                                                         *)
(* Strings are sequences of one-character strings, so that HasSuffix,      *)
(* TrimSuffix, IsExported and the lexical order of a directory listing are *)
(* computed as the library computes them.  A path is the sequence of its   *)
(* "/"-separated components; an absolute path starts with the empty        *)
(* component ("/w/r" is << <<>>, "w", "r" >>), the empty path is << >>.    *)
(***************************************************************************)
EXTENDS Integers, Sequences, FiniteSets, TLC

(***************************************************************************)
(* Bounds of the model.                                                    *)
(***************************************************************************)
\* number of GenerateTests invocations in one behaviour
MaxRuns == 2
\* number of top-level declarations of a source unit (SpecFilter)
MaxDecls == 3

(***************************************************************************)
(* Characters and strings.                                                 *)
(***************************************************************************)
\* the characters in use, in ASCII order
Ascii ==
  << ".", "/",
     "A", "B", "C", "D", "E", "F", "G", "H", "I", "J", "K", "L", "M",
     "N", "O", "P", "Q", "R", "S", "T", "U", "V", "W", "X", "Y", "Z",
     "_",
     "a", "b", "c", "d", "e", "f", "g", "h", "i", "j", "k", "l", "m",
     "n", "o", "p", "q", "r", "s", "t", "u", "v", "w", "x", "y", "z" >>

Chars == { Ascii[i] : i \in 1..Len(Ascii) }
OrdOf == [c \in Chars |-> CHOOSE i \in 1..Len(Ascii) : Ascii[i] = c]
Ord(c) == OrdOf[c]

\* unicode.IsUpper on the characters in use
IsUpper(c) == Ord(c) >= Ord("A") /\ Ord(c) <= Ord("Z")

\* strings.HasSuffix
HasSuffix(s, suffix) ==
  /\ Len(s) >= Len(suffix)
  /\ SubSeq(s, Len(s) - Len(suffix) + 1, Len(s)) = suffix

\* strings.HasPrefix
HasPrefix(s, prefix) ==
  /\ Len(s) >= Len(prefix)
  /\ SubSeq(s, 1, Len(prefix)) = prefix

\* strings.TrimSuffix
TrimSuffix(s, suffix) ==
  IF HasSuffix(s, suffix) THEN SubSeq(s, 1, Len(s) - Len(suffix)) ELSE s

\* s < t in the byte-wise order sort.Strings uses
RECURSIVE StrLess(_, _)
StrLess(s, t) ==
  IF t = << >> THEN FALSE
  ELSE IF s = << >> THEN TRUE
  ELSE IF Ord(Head(s)) # Ord(Head(t)) THEN Ord(Head(s)) < Ord(Head(t))
  ELSE StrLess(Tail(s), Tail(t))

\* sort.Strings turned round: the greatest name first
RECURSIVE SortStrings_Descending(_)
SortStrings_Descending(names) ==
  IF names = {} THEN << >>
  ELSE LET m == CHOOSE x \in names : \A y \in names \ {x} : StrLess(y, x)
       IN  << m >> \o SortStrings_Descending(names \ {m})

\* sort.Strings on a set of distinct names
RECURSIVE SortStrings(_)
SortStrings(names) ==
  IF names = {} THEN << >>
  ELSE LET m == CHOOSE x \in names : \A y \in names \ {x} : StrLess(x, y)
       IN  << m >> \o SortStrings(names \ {m})

DotGo == << ".", "g", "o" >>
TestDotGo == << "_", "t", "e", "s", "t", ".", "g", "o" >>

(***************************************************************************)
(* Paths (path/filepath on clean paths).                                   *)
(***************************************************************************)
\* the path as the string the program holds
RECURSIVE PathString(_)
PathString(p) ==
  IF p = << >> THEN << >>
  ELSE IF Len(p) = 1 THEN p[1]
  ELSE PathString(SubSeq(p, 1, Len(p) - 1)) \o << "/" >> \o p[Len(p)]

IsAbs(p) == Len(p) > 0 /\ p[1] = << >>

\* the working directory of the process, /w
Cwd == << << >>, << "w" >> >>

\* filepath.Abs
Abs(p) == IF IsAbs(p) THEN p ELSE Cwd \o p

\* filepath.Base, filepath.Dir, filepath.Join(dir, name)
Base(p) == p[Len(p)]
Dir(p) == SubSeq(p, 1, Len(p) - 1)
Join(dir, name) == Append(dir, name)

(***************************************************************************)
(* Go source units (go/parser, go/ast).                                    *)
(***************************************************************************)
Area == << "A", "r", "e", "a" >>
Parse == << "P", "a", "r", "s", "e" >>
perimeter == << "p", "e", "r", "i", "m", "e", "t", "e", "r" >>
DefaultColor == << "D", "e", "f", "a", "u", "l", "t", "C", "o", "l", "o", "r" >>
shapes == << "s", "h", "a", "p", "e", "s" >>
geometry == << "g", "e", "o", "m", "e", "t", "r", "y" >>

\* a top-level declaration: *ast.FuncDecl ("func") or *ast.GenDecl (the rest)
Decl(kind, name) == [kind |-> kind, name |-> name]

\* the bytes of a file; a source unit is given by what the parser makes of it
Content(kind, ok, name, decls, lines) ==
  [kind |-> kind, ok |-> ok, Name |-> name, Decls |-> decls, lines |-> lines]

NoContent == Content("none", FALSE, << >>, << >>, << >>)
\* a unit with a syntax error
Invalid == Content("go", FALSE, << >>, << >>, << >>)
\* a valid unit without exported functions
NoExported ==
  Content("go", TRUE, shapes,
          << Decl("func", perimeter), Decl("var", DefaultColor) >>, << >>)
\* package shapes: func Area, func perimeter, var DefaultColor
Shapes ==
  Content("go", TRUE, shapes,
          << Decl("func", Area), Decl("func", perimeter),
             Decl("var", DefaultColor) >>, << >>)
\* two exported functions around other declarations
TwoExported ==
  Content("go", TRUE, shapes,
          << Decl("func", Parse), Decl("type", DefaultColor),
             Decl("func", perimeter), Decl("func", Area) >>, << >>)
\* a test file written by hand
HandWritten == Content("hand", TRUE, shapes, << >>, << >>)

\* ast.IsExported
IsExported(name) == Len(name) > 0 /\ IsUpper(name[1])

\* parser.ParseFile on the bytes of a file
ParseFile(content) ==
  IF content.ok
  THEN [err |-> FALSE, Name |-> content.Name, Decls |-> content.Decls]
  ELSE [err |-> TRUE, Name |-> << >>, Decls |-> << >>]

(***************************************************************************)
(* The file system (package os).                                           *)
(***************************************************************************)
nR == << "r" >>
nO == << "o" >>
nNx == << "n", "x" >>
nH == << ".", "h" >>
nA == << "a" >> \o DotGo
nB == << "b" >> \o DotGo
nC == << ".", "c" >> \o DotGo
nATest == << "a" >> \o TestDotGo
nBTest == << "b" >> \o TestDotGo
nCTest == << ".", "c" >> \o TestDotGo
nD == << "d" >> \o DotGo
nDTest == << "d" >> \o TestDotGo

\* the project directory /w/r, the output directory /w/o, a hidden directory
Root == Join(Cwd, nR)
OutDir == Join(Cwd, nO)
Hidden == Join(Root, nH)

\* every path the model's file system can hold
Universe ==
  { Cwd, Root, OutDir, Hidden, Join(Cwd, nNx) }
  \cup { Join(Root, n) : n \in { nA, nB, nC, nD, nATest, nBTest, nCTest, nDTest } }
  \cup { Join(Hidden, n) : n \in { nA, nATest, nBTest, nCTest, nDTest } }
  \cup { Join(OutDir, n) : n \in { nATest, nBTest, nCTest, nDTest } }

NoNode == [type |-> "none", content |-> NoContent]
DirNode == [type |-> "dir", content |-> NoContent]
FileNode(content) == [type |-> "file", content |-> content]

\* os.Stat / os.Lstat: err == nil
Exists(fsys, p) == Abs(p) \in Universe /\ fsys[Abs(p)].type # "none"
IsDir(fsys, p) == Exists(fsys, p) /\ fsys[Abs(p)].type = "dir"

\* os.MkdirAll: the file system afterwards, err set when a component is a file
RECURSIVE MkdirAll(_, _)
MkdirAll(fsys, p) ==
  LET a == Abs(p) IN
  IF a \notin Universe THEN [err |-> TRUE, fs |-> fsys]
  ELSE IF fsys[a].type = "dir" THEN [err |-> FALSE, fs |-> fsys]
  ELSE IF fsys[a].type = "file" THEN [err |-> TRUE, fs |-> fsys]
  ELSE LET up == MkdirAll(fsys, Dir(a)) IN
       IF up.err THEN up
       ELSE [err |-> FALSE, fs |-> [up.fs EXCEPT ![a] = DirNode]]

\* os.Create followed by the writes to the file: O_CREATE|O_TRUNC, so an
\* existing regular file is replaced
CreateAndWrite(fsys, p, content) ==
  LET a == Abs(p) IN
  IF \/ a \notin Universe
     \/ ~IsDir(fsys, Dir(a))
     \/ fsys[a].type = "dir"
  THEN [err |-> TRUE, fs |-> fsys]
  ELSE [err |-> FALSE, fs |-> [fsys EXCEPT ![a] = FileNode(content)]]

\* readDirNames: the names in a directory, sorted
ReadDirNames(fsys, d) ==
  SortStrings({ Base(p) : p \in { q \in Universe : Dir(q) = d /\ fsys[q].type # "none" } })

(***************************************************************************)
(* Rendering (TestTemplate executed on TestData).                          *)
(***************************************************************************)
\* one line of rendered text: fixed text and the value substituted into it
Line(text, arg) == [text |-> text, arg |-> arg]

\* Block with a third entry in the table of cases
Block_ThreeCases(f) ==
  << Line("func Test{{.Name}}(t *testing.T) {", f.Name) >>
  \o (IF f.TableDriven
      THEN << Line("tests := []struct {", << >>),
              Line("name: \"test case 1\",", << >>),
              Line("name: \"test case 2\",", << >>),
              Line("name: \"test case 3\",", << >>),
              Line("for _, tt := range tests {", << >>),
              Line("t.Run(tt.name, func(t *testing.T) {", << >>),
              Line("// TODO: Call {{.Name}} with the test case inputs and verify outputs", f.Name) >>
      ELSE << Line("// TODO: Write test for {{.Name}}", f.Name) >>)
  \o << Line("}", << >>) >>

\* Block that takes the {{if .TableDriven}} branch whatever the flag
Block_AlwaysTable(f) ==
  << Line("func Test{{.Name}}(t *testing.T) {", f.Name) >>
  \o << Line("tests := []struct {", << >>),
        Line("name: \"test case 1\",", << >>),
        Line("name: \"test case 2\",", << >>),
        Line("for _, tt := range tests {", << >>),
        Line("t.Run(tt.name, func(t *testing.T) {", << >>),
        Line("// TODO: Call {{.Name}} with the test case inputs and verify outputs", f.Name) >>
  \o << Line("}", << >>) >>

\* the body of {{range .Functions}} for one FunctionData
Block(f) ==
  << Line("func Test{{.Name}}(t *testing.T) {", f.Name) >>
  \o (IF f.TableDriven
      THEN << Line("tests := []struct {", << >>),
              Line("name: \"test case 1\",", << >>),
              Line("name: \"test case 2\",", << >>),
              Line("for _, tt := range tests {", << >>),
              Line("t.Run(tt.name, func(t *testing.T) {", << >>),
              Line("// TODO: Call {{.Name}} with the test case inputs and verify outputs", f.Name) >>
      ELSE << Line("// TODO: Write test for {{.Name}}", f.Name) >>)
  \o << Line("}", << >>) >>

\* Blocks that ranges over .Functions from the last to the first
RECURSIVE Blocks_Reversed(_)
Blocks_Reversed(functions) ==
  IF functions = << >> THEN << >>
  ELSE Blocks_Reversed(Tail(functions)) \o Block(Head(functions))

\* {{range .Functions}} ... {{end}}
RECURSIVE Blocks(_)
Blocks(functions) ==
  IF functions = << >> THEN << >>
  ELSE Block(Head(functions)) \o Blocks(Tail(functions))

\* tmpl.Execute(file, data)
TestTemplate(data) ==
  << Line("package {{.Package}}", data.Package),
     Line("import \"testing\"", << >>) >>
  \o Blocks(data.Functions)

(***************************************************************************)
(* generateTestForFile.                                                    *)
(***************************************************************************)
Nil == "nil"
ErrParse == "failed to parse Go file"
ErrMkdir == "failed to create output directory"
ErrExists == "test file already exists"
ErrCreate == "failed to create test file"
ErrStat == "failed to stat path"
ErrNotGo == "path must be a directory or a Go file"
MsgGenerating == "Generating tests for:"
MsgGenerated == "Generated test file"
MsgSkipping == "No exported functions found, skipping"

\* ExportedFunctions without the *ast.FuncDecl type assertion
RECURSIVE ExportedFunctions_AnyDecl(_, _)
ExportedFunctions_AnyDecl(decls, tableTests) ==
  IF decls = << >> THEN << >>
  ELSE (IF IsExported(Head(decls).name)
        THEN << [Name |-> Head(decls).name, TableDriven |-> tableTests] >>
        ELSE << >>)
       \o ExportedFunctions_AnyDecl(Tail(decls), tableTests)

\* the exported functions of a unit, in source order
RECURSIVE ExportedFunctions(_, _)
ExportedFunctions(decls, tableTests) ==
  IF decls = << >> THEN << >>
  ELSE (IF Head(decls).kind = "func" /\ IsExported(Head(decls).name)
        THEN << [Name |-> Head(decls).name, TableDriven |-> tableTests] >>
        ELSE << >>)
       \o ExportedFunctions(Tail(decls), tableTests)

\* OutputPath that always places the file beside its source
OutputPath_Alongside(path, outputDir) ==
  Join(Dir(path), TrimSuffix(Base(path), DotGo) \o TestDotGo)

\* the companion file's path
OutputPath(path, outputDir) ==
  LET fileName == TrimSuffix(Base(path), DotGo) \o TestDotGo
  IN  IF outputDir = << >> THEN Join(Dir(path), fileName)
      ELSE Join(outputDir, fileName)

\* what one call returns and leaves behind: the error, the line printed, the
\* output path named in either, and the file system
Result(fsys, err, msg, out) == [fs |-> fsys, err |-> err, msg |-> msg, out |-> out]

\* generateTestForFile that names the package after the source file
generateTestForFile_PackageFromPath(path, outputDir, tableTests, fsys) ==
  LET node == ParseFile(fsys[path].content)
      functions == ExportedFunctions(node.Decls, tableTests)
      made == IF outputDir = << >> THEN [err |-> FALSE, fs |-> fsys]
              ELSE MkdirAll(fsys, outputDir)
      outputPath == OutputPath(path, outputDir)
      data == [Package |-> TrimSuffix(Base(path), DotGo), Functions |-> functions]
      text == Content("rendered", TRUE, data.Package, << >>, TestTemplate(data))
      created == CreateAndWrite(made.fs, outputPath, text)
  IN  IF node.err THEN Result(fsys, ErrParse, "", << >>)
      ELSE IF Len(functions) = 0 THEN Result(fsys, Nil, MsgSkipping, << >>)
      ELSE IF made.err THEN Result(made.fs, ErrMkdir, "", << >>)
      ELSE IF Exists(made.fs, outputPath)
           THEN Result(made.fs, ErrExists, "", outputPath)
      ELSE IF created.err THEN Result(created.fs, ErrCreate, "", << >>)
      ELSE Result(created.fs, Nil, MsgGenerated, outputPath)

\* generateTestForFile that creates the output directory before it looks
\* at the functions
generateTestForFile_MkdirFirst(path, outputDir, tableTests, fsys) ==
  LET node == ParseFile(fsys[path].content)
      functions == ExportedFunctions(node.Decls, tableTests)
      made == IF outputDir = << >> THEN [err |-> FALSE, fs |-> fsys]
              ELSE MkdirAll(fsys, outputDir)
      outputPath == OutputPath(path, outputDir)
      data == [Package |-> node.Name, Functions |-> functions]
      text == Content("rendered", TRUE, data.Package, << >>, TestTemplate(data))
      created == CreateAndWrite(made.fs, outputPath, text)
  IN  IF node.err THEN Result(fsys, ErrParse, "", << >>)
      ELSE IF made.err THEN Result(made.fs, ErrMkdir, "", << >>)
      ELSE IF Len(functions) = 0 THEN Result(made.fs, Nil, MsgSkipping, << >>)
      ELSE IF Exists(made.fs, outputPath)
           THEN Result(made.fs, ErrExists, "", outputPath)
      ELSE IF created.err THEN Result(created.fs, ErrCreate, "", << >>)
      ELSE Result(created.fs, Nil, MsgGenerated, outputPath)

\* generateTestForFile without the os.Stat test of lines 288-291
generateTestForFile_NoStat(path, outputDir, tableTests, fsys) ==
  LET node == ParseFile(fsys[path].content)
      functions == ExportedFunctions(node.Decls, tableTests)
      made == IF outputDir = << >> THEN [err |-> FALSE, fs |-> fsys]
              ELSE MkdirAll(fsys, outputDir)
      outputPath == OutputPath(path, outputDir)
      data == [Package |-> node.Name, Functions |-> functions]
      text == Content("rendered", TRUE, data.Package, << >>, TestTemplate(data))
      created == CreateAndWrite(made.fs, outputPath, text)
  IN  IF node.err THEN Result(fsys, ErrParse, "", << >>)
      ELSE IF Len(functions) = 0 THEN Result(fsys, Nil, MsgSkipping, << >>)
      ELSE IF made.err THEN Result(made.fs, ErrMkdir, "", << >>)
      ELSE IF created.err THEN Result(created.fs, ErrCreate, "", << >>)
      ELSE Result(created.fs, Nil, MsgGenerated, outputPath)

\* generateTestForFile without the early return of lines 263-266
generateTestForFile_NoSkip(path, outputDir, tableTests, fsys) ==
  LET node == ParseFile(fsys[path].content)
      functions == ExportedFunctions(node.Decls, tableTests)
      made == IF outputDir = << >> THEN [err |-> FALSE, fs |-> fsys]
              ELSE MkdirAll(fsys, outputDir)
      outputPath == OutputPath(path, outputDir)
      data == [Package |-> node.Name, Functions |-> functions]
      text == Content("rendered", TRUE, data.Package, << >>, TestTemplate(data))
      created == CreateAndWrite(made.fs, outputPath, text)
  IN  IF node.err THEN Result(fsys, ErrParse, "", << >>)
      ELSE IF made.err THEN Result(made.fs, ErrMkdir, "", << >>)
      ELSE IF Exists(made.fs, outputPath)
           THEN Result(made.fs, ErrExists, "", outputPath)
      ELSE IF created.err THEN Result(created.fs, ErrCreate, "", << >>)
      ELSE Result(created.fs, Nil, MsgGenerated, outputPath)

generateTestForFile(path, outputDir, tableTests, fsys) ==
  LET node == ParseFile(fsys[path].content)
      functions == ExportedFunctions(node.Decls, tableTests)
      made == IF outputDir = << >> THEN [err |-> FALSE, fs |-> fsys]
              ELSE MkdirAll(fsys, outputDir)
      outputPath == OutputPath(path, outputDir)
      data == [Package |-> node.Name, Functions |-> functions]
      text == Content("rendered", TRUE, data.Package, << >>, TestTemplate(data))
      created == CreateAndWrite(made.fs, outputPath, text)
  IN  IF node.err THEN Result(fsys, ErrParse, "", << >>)
      ELSE IF Len(functions) = 0 THEN Result(fsys, Nil, MsgSkipping, << >>)
      ELSE IF made.err THEN Result(made.fs, ErrMkdir, "", << >>)
      ELSE IF Exists(made.fs, outputPath)
           THEN Result(made.fs, ErrExists, "", outputPath)
      ELSE IF created.err THEN Result(created.fs, ErrCreate, "", << >>)
      ELSE Result(created.fs, Nil, MsgGenerated, outputPath)

\* generateTestForFile up to and including the os.Stat test of lines
\* 288-291: the result when it returns early, else the TestData and the
\* output path it goes on with
statOutput(path, outputDir, tableTests, fsys) ==
  LET node == ParseFile(fsys[path].content)
      functions == ExportedFunctions(node.Decls, tableTests)
      made == IF outputDir = << >> THEN [err |-> FALSE, fs |-> fsys]
              ELSE MkdirAll(fsys, outputDir)
      outputPath == OutputPath(path, outputDir)
      data == [Package |-> node.Name, Functions |-> functions]
      return(res) == [returned |-> TRUE, res |-> res, data |-> data]
  IN  IF node.err THEN return(Result(fsys, ErrParse, "", << >>))
      ELSE IF Len(functions) = 0 THEN return(Result(fsys, Nil, MsgSkipping, << >>))
      ELSE IF made.err THEN return(Result(made.fs, ErrMkdir, "", << >>))
      ELSE IF Exists(made.fs, outputPath)
           THEN return(Result(made.fs, ErrExists, "", outputPath))
      ELSE [returned |-> FALSE, res |-> Result(made.fs, Nil, "", outputPath),
            data |-> data]

\* generateTestForFile from os.Create on (lines 306-319)
createOutput(outputPath, data, fsys) ==
  LET text == Content("rendered", TRUE, data.Package, << >>, TestTemplate(data))
      created == CreateAndWrite(fsys, outputPath, text)
  IN  IF created.err THEN Result(created.fs, ErrCreate, "", << >>)
      ELSE Result(created.fs, Nil, MsgGenerated, outputPath)

(***************************************************************************)
(* GenerateTests.                                                          *)
(***************************************************************************)
\* IsCandidate without the exclusion of test files
IsCandidate_AnyGo(path) ==
  /\ HasSuffix(PathString(path), DotGo)

\* the test of lines 226 and 232 on a path that is not a directory
IsCandidate(path) ==
  /\ HasSuffix(PathString(path), DotGo)
  /\ ~HasSuffix(PathString(path), TestDotGo)

\* walkFn that hands every file to generateTestForFile
walkFn_EveryFile(path, isDir, outputDir, tableTests, fsys) ==
  IF ~isDir
  THEN [unit |-> TRUE, res |-> generateTestForFile(path, outputDir, tableTests, fsys)]
  ELSE [unit |-> FALSE, res |-> Result(fsys, Nil, "", << >>)]

\* the function handed to filepath.Walk; unit tells whether the path was
\* handed to generateTestForFile
walkFn(path, isDir, outputDir, tableTests, fsys) ==
  IF ~isDir /\ IsCandidate(path)
  THEN [unit |-> TRUE, res |-> generateTestForFile(path, outputDir, tableTests, fsys)]
  ELSE [unit |-> FALSE, res |-> Result(fsys, Nil, "", << >>)]

\* RootKind without the error test on os.Stat
RootKind_NoStat(absPath, fsys) ==
  IF IsDir(fsys, absPath) THEN "dir"
  ELSE IF IsCandidate(absPath) THEN "file"
  ELSE "other"

\* what os.Stat and the suffix tests of lines 214-237 make of the root
RootKind(absPath, fsys) ==
  IF ~Exists(fsys, absPath) THEN "missing"
  ELSE IF IsDir(fsys, absPath) THEN "dir"
  ELSE IF IsCandidate(absPath) THEN "file"
  ELSE "other"

VARIABLES
  fs,       \* the file system: Universe -> node
  pc,       \* "idle", or "walk" while filepath.Walk is under way
  pending,  \* the paths filepath.Walk has still to visit, next first
  calls,    \* the invocations of GenerateTests so far, with their results
  units,    \* the calls of generateTestForFile so far, with their results
  probe,    \* a source unit and what the filter makes of it (SpecFilter)
  race,     \* two concurrent calls of generateTestForFile (SpecRace)
  srv,      \* the API server: os.Stdout and two requests (SpecServer)
  prof,     \* a call of CPUProfile, its target and its timer (SpecProfile)
  wd        \* the working directory of the process (SpecChdir)

vars == << fs, pc, pending, calls, units, probe, race, srv, prof, wd >>

Call(path, outputDir, tableTests, ret) ==
  [path |-> path, outputDir |-> outputDir, tableTests |-> tableTests, ret |-> ret]

Unit(run, path, res) ==
  [run |-> run, path |-> path, err |-> res.err, msg |-> res.msg, out |-> res.out]

Running == "running"

\* the roots and output directories given on the command line
RootArgs == { << nR >>, Join(Root, nA), Join(Root, nATest), Join(Cwd, nNx) }
OutputDirArgs == { << >>, << nO >> }

\* the file systems a run can start from
InitialFileSystems ==
  { [p \in Universe |->
       IF p \in { Cwd, Root } THEN DirNode
       ELSE IF p = Join(Root, nA) THEN FileNode(a)
       ELSE IF p = Join(Root, nB) /\ b # NoContent THEN FileNode(b)
       ELSE IF p = Join(Root, nC) /\ h THEN FileNode(Shapes)
       ELSE IF p = Hidden /\ h THEN DirNode
       ELSE IF p = Join(Hidden, nA) /\ h THEN FileNode(Shapes)
       ELSE IF p = Join(Root, nATest) /\ t = "a" THEN FileNode(HandWritten)
       ELSE IF p = Join(Root, nBTest) /\ t = "b" THEN FileNode(HandWritten)
       ELSE IF p = OutDir /\ o = "file" THEN FileNode(HandWritten)
       ELSE IF p = OutDir /\ o = "dir" THEN DirNode
       ELSE IF p = Join(OutDir, nATest) /\ o = "dir" THEN FileNode(HandWritten)
       ELSE NoNode] :
    a \in { Invalid, NoExported, Shapes },
    b \in { NoContent, Invalid, TwoExported },
    h \in BOOLEAN,
    t \in { "none", "a", "b" },
    o \in { "none", "file", "dir" } }

Probe(decls, tableTests, functions, done) ==
  [decls |-> decls, tableTests |-> tableTests, functions |-> functions, done |-> done]

NoProbe == Probe(<< >>, FALSE, << >>, FALSE)

\* no concurrent calls
NoRace == << >>

\* no server
NoServer == << >>

\* no profiling
NoProfile == << >>

Init ==
  /\ fs \in InitialFileSystems
  /\ pc = "idle"
  /\ pending = << >>
  /\ calls = << >>
  /\ units = << >>
  /\ probe = NoProbe
  /\ race = NoRace
  /\ srv = NoServer
  /\ prof = NoProfile
  /\ wd = Cwd

\* GenerateTests(path, outputDir, tableTests) up to the start of the walk,
\* or to its return when the root is not a directory
GenerateTests(path, outputDir, tableTests) ==
  /\ pc = "idle"
  /\ Len(calls) < MaxRuns
  /\ UNCHANGED << probe, race, srv, prof, wd >>
  /\ LET absPath == Abs(path)
         run == Len(calls) + 1
     IN  \E kind \in { RootKind(absPath, fs) } :
           CASE kind = "missing" ->
                  /\ calls' = Append(calls, Call(path, outputDir, tableTests, ErrStat))
                  /\ UNCHANGED << fs, pc, pending, units >>
             [] kind = "dir" ->
                  /\ calls' = Append(calls, Call(path, outputDir, tableTests, Running))
                  /\ pc' = "walk"
                  /\ pending' = << absPath >>
                  /\ UNCHANGED << fs, units >>
             [] kind = "file" ->
                  \E one \in { generateTestForFile(absPath, outputDir, tableTests, fs) } :
                    /\ calls' = Append(calls, Call(path, outputDir, tableTests, one.err))
                    /\ fs' = one.fs
                    /\ units' = Append(units, Unit(run, absPath, one))
                    /\ UNCHANGED << pc, pending >>
             [] OTHER ->
                  /\ calls' = Append(calls, Call(path, outputDir, tableTests, ErrNotGo))
                  /\ UNCHANGED << fs, pc, pending, units >>

\* filepath.Walk visits the next path: it reads the names of a directory,
\* calls walkFn, and stops at the first error walkFn returns
Walk ==
  /\ pc = "walk"
  /\ UNCHANGED << probe, race, srv, prof, wd >>
  /\ LET run == Len(calls)
         call == calls[run]
         path == Head(pending)
         isDir == IsDir(fs, path)
     IN  \E names \in { IF isDir THEN ReadDirNames(fs, path) ELSE << >> },
            r \in { walkFn(path, isDir, call.outputDir, call.tableTests, fs) } :
           LET rest == [i \in 1..Len(names) |-> Join(path, names[i])] \o Tail(pending)
           IN  /\ fs' = r.res.fs
               /\ units' = IF r.unit THEN Append(units, Unit(run, path, r.res)) ELSE units
               /\ IF r.res.err # Nil
                  THEN /\ pending' = << >>
                       /\ pc' = "idle"
                       /\ calls' = [calls EXCEPT ![run].ret = r.res.err]
                  ELSE IF rest = << >>
                  THEN /\ pending' = << >>
                       /\ pc' = "idle"
                       /\ calls' = [calls EXCEPT ![run].ret = Nil]
                  ELSE /\ pending' = rest
                       /\ UNCHANGED << pc, calls >>

Next ==
  \/ \E path \in RootArgs, outputDir \in OutputDirArgs, tableTests \in BOOLEAN :
       GenerateTests(path, outputDir, tableTests)
  \/ Walk

Spec == Init /\ [][Next]_vars

(***************************************************************************)
(* The filter of lines 252-261 on its own: a unit's declarations are drawn *)
(* from the sequences of at most MaxDecls declarations.                    *)
(***************************************************************************)
DeclChoices ==
  { Decl(k, n) : k \in { "func", "var", "type" },
                 n \in { Area, perimeter, Parse, DefaultColor } }

DeclLists ==
  UNION { [1..n -> DeclChoices] : n \in 0..MaxDecls }

InitFilter ==
  /\ fs = [p \in Universe |-> NoNode]
  /\ pc = "idle"
  /\ pending = << >>
  /\ calls = << >>
  /\ units = << >>
  /\ \E decls \in DeclLists, tableTests \in BOOLEAN :
       probe = Probe(decls, tableTests, << >>, FALSE)
  /\ race = NoRace
  /\ srv = NoServer
  /\ prof = NoProfile
  /\ wd = Cwd

\* the loop of lines 253-261 on the probed unit
Filter ==
  /\ ~probe.done
  /\ probe' = [probe EXCEPT !.functions = ExportedFunctions(probe.decls, probe.tableTests),
                            !.done = TRUE]
  /\ UNCHANGED << fs, pc, pending, calls, units, race, srv, prof, wd >>

NextFilter == Filter

SpecFilter == InitFilter /\ [][NextFilter]_vars

(***************************************************************************)
(* A directory of three source files: one without exported functions, one  *)
(* whose companion file exists already, one ordinary; the three roles fall *)
(* on a.go, b.go and d.go in every order.                                  *)
(***************************************************************************)
ThreeFileSystems ==
  { [p \in Universe |->
       IF p \in { Cwd, Root } THEN DirNode
       ELSE IF p = Join(Root, r[1]) THEN FileNode(NoExported)
       ELSE IF p = Join(Root, r[2]) THEN FileNode(Shapes)
       ELSE IF p = Join(Root, TrimSuffix(r[2], DotGo) \o TestDotGo)
            THEN FileNode(HandWritten)
       ELSE IF p = Join(Root, r[3]) THEN FileNode(TwoExported)
       ELSE NoNode] :
    r \in { q \in { nA, nB, nD } \X { nA, nB, nD } \X { nA, nB, nD } :
               Cardinality({ q[1], q[2], q[3] }) = 3 } }

InitThree ==
  /\ fs \in ThreeFileSystems
  /\ pc = "idle"
  /\ pending = << >>
  /\ calls = << >>
  /\ units = << >>
  /\ probe = NoProbe
  /\ race = NoRace
  /\ srv = NoServer
  /\ prof = NoProfile
  /\ wd = Cwd

SpecThree == InitThree /\ [][Next]_vars

(***************************************************************************)
(* Lines 250-316 on their own, without the file system: the package name   *)
(* and the declarations of a parsed unit are drawn from bounded sets, the  *)
(* unit is filtered and, unless it is skipped, the template is executed.   *)
(***************************************************************************)
PackageNames == { shapes, geometry }

RenderProbe(package, decls, tableTests, functions, lines, done) ==
  [Package |-> package, decls |-> decls, tableTests |-> tableTests,
   functions |-> functions, lines |-> lines, done |-> done]

InitRender ==
  /\ fs = [p \in Universe |-> NoNode]
  /\ pc = "idle"
  /\ pending = << >>
  /\ calls = << >>
  /\ units = << >>
  /\ \E package \in PackageNames, decls \in DeclLists, tableTests \in BOOLEAN :
       probe = RenderProbe(package, decls, tableTests, << >>, << >>, FALSE)
  /\ race = NoRace
  /\ srv = NoServer
  /\ prof = NoProfile
  /\ wd = Cwd

\* filter (252-261), early return (263-266), TestData and Execute (293-313)
Render ==
  /\ ~probe.done
  /\ \E functions \in { ExportedFunctions(probe.decls, probe.tableTests) } :
       probe' = [probe EXCEPT
                   !.functions = functions,
                   !.lines = IF Len(functions) = 0 THEN << >>
                             ELSE TestTemplate([Package |-> probe.Package,
                                                Functions |-> functions]),
                   !.done = TRUE]
  /\ UNCHANGED << fs, pc, pending, calls, units, race, srv, prof, wd >>

NextRender == Render

SpecRender == InitRender /\ [][NextRender]_vars

(***************************************************************************)
(* Two invocations of GenerateTests on single files at the same time (two  *)
(* runs of the command on one file system).  Each is a call of             *)
(* generateTestForFile (line 233); the file system can change between its  *)
(* system calls, and the step that matters is the one from the os.Stat of  *)
(* line 289 to the os.Create of line 306.                                  *)
(***************************************************************************)
Procs == { 1, 2 }

RaceArgs == { Join(Root, nA), Join(Join(Root, nH), nA) }

Proc(at, path, outputDir, tableTests, out, data) ==
  [at |-> at, path |-> path, outputDir |-> outputDir, tableTests |-> tableTests,
   out |-> out, data |-> data]

NoData == [Package |-> << >>, Functions |-> << >>]

RaceFileSystems ==
  { [p \in Universe |->
       IF p \in { Cwd, Root, Join(Root, nH) } THEN DirNode
       ELSE IF p = Join(Root, nA) THEN FileNode(a)
       ELSE IF p = Join(Join(Root, nH), nA) THEN FileNode(TwoExported)
       ELSE IF p = OutDir /\ o THEN DirNode
       ELSE IF p = Join(Root, nATest) /\ t THEN FileNode(HandWritten)
       ELSE NoNode] :
    a \in { Shapes, NoExported }, o \in BOOLEAN, t \in BOOLEAN }

InitRace ==
  /\ fs \in RaceFileSystems
  /\ pc = "idle"
  /\ pending = << >>
  /\ calls = << >>
  /\ units = << >>
  /\ probe = NoProbe
  /\ race \in [Procs -> { Proc("start", path, outputDir, tableTests, << >>, NoData) :
                            path \in RaceArgs, outputDir \in OutputDirArgs,
                            tableTests \in BOOLEAN }]
  /\ srv = NoServer
  /\ prof = NoProfile
  /\ wd = Cwd

\* lines 243-291 of one call
StatOutput(p) ==
  /\ race[p].at = "start"
  /\ \E s \in { statOutput(race[p].path, race[p].outputDir, race[p].tableTests, fs) } :
       /\ fs' = s.res.fs
       /\ IF s.returned
          THEN /\ race' = [race EXCEPT ![p].at = "done"]
               /\ units' = Append(units, Unit(p, race[p].path, s.res))
          ELSE /\ race' = [race EXCEPT ![p].at = "create",
                                       ![p].out = s.res.out,
                                       ![p].data = s.data]
               /\ UNCHANGED units
  /\ UNCHANGED << pc, pending, calls, probe, srv, prof, wd >>

\* lines 293-319 of one call
CreateOutput(p) ==
  /\ race[p].at = "create"
  /\ \E c \in { createOutput(race[p].out, race[p].data, fs) } :
       /\ fs' = c.fs
       /\ units' = Append(units, Unit(p, race[p].path, c))
  /\ race' = [race EXCEPT ![p].at = "done"]
  /\ UNCHANGED << pc, pending, calls, probe, srv, prof, wd >>

NextRace ==
  \/ \E p \in Procs : StatOutput(p)
  \/ \E p \in Procs : CreateOutput(p)

SpecRace == InitRace /\ [][NextRace]_vars

\* what invocation k has printed so far: the line of 205, then the line of
\* 264 or 318 of each unit that printed one
RECURSIVE UnitLines(_, _)
UnitLines(us, k) ==
  IF us = << >> THEN << >>
  ELSE (IF Head(us).run = k /\ Head(us).msg # ""
        THEN << Line(Head(us).msg, Head(us).path) >>
        ELSE << >>)
       \o UnitLines(Tail(us), k)

Stdout(k) == << Line(MsgGenerating, calls[k].path) >> \o UnitLines(units, k)

(***************************************************************************)
(* The API server (cmd/docs.go).  net/http serves every request on a       *)
(* goroutine of its own; analyzeStructureHandler and                       *)
(* checkDependenciesHandler capture what the command prints by pointing    *)
(* the package variable os.Stdout at a temporary file.  The reads and      *)
(* writes of os.Stdout are not synchronised: each is a step of its own.    *)
(***************************************************************************)
Requests == { 1, 2 }
MaxPrints == 2

\* os.Stdout: the stream the process started with, or the temporary file
\* of a request
Original == 0

Request(at, handler, method, path, oldStdout, printed, status, output) ==
  [at |-> at, handler |-> handler, method |-> method, path |-> path,
   oldStdout |-> oldStdout, printed |-> printed, status |-> status,
   output |-> output]

TempFile(state, text) == [state |-> state, text |-> text]

\* the deferred restore that leaves os.Stdout as it is
RestoredStdout_Left(stdout, oldStdout) == stdout

\* defer func() { os.Stdout = oldStdout }()
RestoredStdout(stdout, oldStdout) == oldStdout

InitServer ==
  /\ fs = [p \in Universe |-> NoNode]
  /\ pc = "idle"
  /\ pending = << >>
  /\ calls = << >>
  /\ units = << >>
  /\ probe = NoProbe
  /\ race = NoRace
  /\ \E reqs \in [Requests ->
                    { Request("new", handler, method, path, Original, 0, 0, << >>) :
                        handler \in { "analyzeStructureHandler", "checkDependenciesHandler" },
                        method \in { "GET", "POST" },
                        path \in { "", "p" } }] :
       srv = [stdout |-> Original,
              console |-> << >>,
              temp |-> [r \in Requests |-> TempFile("none", << >>)],
              req |-> reqs,
              overlap |-> FALSE]
  /\ prof = NoProfile
  /\ wd = Cwd

Active(r) == srv.req[r].at \notin { "new", "done" }

\* the method and path tests, then os.CreateTemp and the two defers on it
CreateTemp(r) ==
  /\ srv.req[r].at = "new"
  /\ IF srv.req[r].method # "POST"
     THEN srv' = [srv EXCEPT !.req[r].at = "done", !.req[r].status = 405]
     ELSE IF srv.req[r].path = ""
     THEN srv' = [srv EXCEPT !.req[r].at = "done", !.req[r].status = 400]
     ELSE srv' = [srv EXCEPT !.req[r].at = "save",
                             !.temp[r] = TempFile("open", << >>),
                             !.overlap = @ \/ \E q \in Requests \ { r } : Active(q)]
  /\ UNCHANGED << fs, pc, pending, calls, units, probe, race, prof, wd >>

\* oldStdout := os.Stdout
SaveStdout(r) ==
  /\ srv.req[r].at = "save"
  /\ srv' = [srv EXCEPT !.req[r].at = "redirect", !.req[r].oldStdout = srv.stdout]
  /\ UNCHANGED << fs, pc, pending, calls, units, probe, race, prof, wd >>

\* os.Stdout = tempFile, and the defer of the restore
RedirectStdout(r) ==
  /\ srv.req[r].at = "redirect"
  /\ srv' = [srv EXCEPT !.req[r].at = "run", !.stdout = r]
  /\ UNCHANGED << fs, pc, pending, calls, units, probe, race, prof, wd >>

\* one fmt.Println of the command run for request r: it goes to whatever
\* os.Stdout is now; a write to a closed file fails and the line is lost
Println(r) ==
  /\ srv.req[r].at = "run"
  /\ srv.req[r].printed < MaxPrints
  /\ srv' = IF srv.stdout = Original
            THEN [srv EXCEPT !.req[r].printed = @ + 1, !.console = Append(@, r)]
            ELSE IF srv.temp[srv.stdout].state = "open"
            THEN [srv EXCEPT !.req[r].printed = @ + 1,
                             !.temp[srv.stdout].text = Append(@, r)]
            ELSE [srv EXCEPT !.req[r].printed = @ + 1]
  /\ UNCHANGED << fs, pc, pending, calls, units, probe, race, prof, wd >>

\* the command returns, with an error or without, after its first line
CommandReturns(r) ==
  /\ srv.req[r].at = "run"
  /\ srv.req[r].printed >= 1
  /\ \E ok \in BOOLEAN :
       srv' = IF ok THEN [srv EXCEPT !.req[r].at = "read"]
              ELSE [srv EXCEPT !.req[r].at = "restore", !.req[r].status = 500]
  /\ UNCHANGED << fs, pc, pending, calls, units, probe, race, prof, wd >>

\* tempFile.Seek, os.ReadFile(tempFile.Name()) and sendJSON
ReadOutput(r) ==
  /\ srv.req[r].at = "read"
  /\ srv' = [srv EXCEPT !.req[r].at = "restore",
                        !.req[r].status = 200,
                        !.req[r].output = srv.temp[r].text]
  /\ UNCHANGED << fs, pc, pending, calls, units, probe, race, prof, wd >>

\* the last defer registered runs first
RestoreStdout(r) ==
  /\ srv.req[r].at = "restore"
  /\ srv' = [srv EXCEPT !.req[r].at = "close",
                        !.stdout = RestoredStdout(srv.stdout, srv.req[r].oldStdout)]
  /\ UNCHANGED << fs, pc, pending, calls, units, probe, race, prof, wd >>

\* tempFile.Close() and os.Remove(tempFile.Name())
CloseTemp(r) ==
  /\ srv.req[r].at = "close"
  /\ srv' = [srv EXCEPT !.req[r].at = "done", !.temp[r].state = "closed"]
  /\ UNCHANGED << fs, pc, pending, calls, units, probe, race, prof, wd >>

NextServer ==
  \/ \E r \in Requests : CreateTemp(r)
  \/ \E r \in Requests : SaveStdout(r)
  \/ \E r \in Requests : RedirectStdout(r)
  \/ \E r \in Requests : Println(r)
  \/ \E r \in Requests : CommandReturns(r)
  \/ \E r \in Requests : ReadOutput(r)
  \/ \E r \in Requests : RestoreStdout(r)
  \/ \E r \in Requests : CloseTemp(r)

SpecServer == InitServer /\ [][NextServer]_vars

(***************************************************************************)
(* Runs whose output directory lies inside the tree being walked: the      *)
(* companion files land in a directory the walk has still to read.         *)
(***************************************************************************)
InsideDirArgs == { << >>, << nR, nH >> }
MaxTreeRuns == 1

TreeFileSystems ==
  { [p \in Universe |->
       IF p \in { Cwd, Root, Hidden } THEN DirNode
       ELSE IF p = Join(Root, nC) THEN FileNode(c)
       ELSE IF p = Join(Root, nA) THEN FileNode(a)
       ELSE IF p = Join(Hidden, nA) /\ h THEN FileNode(Shapes)
       ELSE IF p = Join(Root, nB) /\ b THEN FileNode(TwoExported)
       ELSE NoNode] :
    c \in { Shapes, NoExported },
    a \in { Shapes, Invalid },
    h \in BOOLEAN,
    b \in BOOLEAN }

InitTree ==
  /\ fs \in TreeFileSystems
  /\ pc = "idle"
  /\ pending = << >>
  /\ calls = << >>
  /\ units = << >>
  /\ probe = NoProbe
  /\ race = NoRace
  /\ srv = NoServer
  /\ prof = NoProfile
  /\ wd = Cwd

NextTree ==
  \/ /\ Len(calls) < MaxTreeRuns
     /\ \E path \in RootArgs, outputDir \in InsideDirArgs :
          GenerateTests(path, outputDir, FALSE)
  \/ Walk

SpecTree == InitTree /\ [][NextTree]_vars

\* filepath.Walk is a loop in the calling goroutine: once begun it goes on
\* until it returns
SpecTreeFair == SpecTree /\ WF_vars(Walk)

(***************************************************************************)
(* The same invocation repeated over an identical tree: between the runs   *)
(* the tree is put back as it was (a fresh copy of the same project);      *)
(* probe keeps the tree the first run started from.                        *)
(***************************************************************************)
MaxTwinRuns == 2

InitTwice ==
  /\ fs \in InitialFileSystems
  /\ pc = "idle"
  /\ pending = << >>
  /\ calls = << >>
  /\ units = << >>
  /\ probe = fs
  /\ race = NoRace
  /\ srv = NoServer
  /\ prof = NoProfile
  /\ wd = Cwd

\* the tree is replaced by an identical copy of the original
SameTree ==
  /\ pc = "idle"
  /\ calls # << >>
  /\ Len(calls) < MaxTwinRuns
  /\ fs # probe
  /\ fs' = probe
  /\ UNCHANGED << pc, pending, calls, units, probe, race, srv, prof, wd >>

NextTwice ==
  \/ /\ calls = << >>
     /\ \E path \in RootArgs, outputDir \in OutputDirArgs, tableTests \in BOOLEAN :
          GenerateTests(path, outputDir, tableTests)
  \/ /\ calls # << >>
     /\ Len(calls) < MaxTwinRuns
     /\ fs = probe
     /\ GenerateTests(calls[1].path, calls[1].outputDir, calls[1].tableTests)
  \/ Walk
  \/ SameTree

SpecTwice == InitTwice /\ [][NextTwice]_vars

(***************************************************************************)
(* CPUProfile (package profiler): the target is started, a goroutine       *)
(* sleeps for the duration and kills it, and the caller waits for the      *)
(* target to exit.  Time passes in seconds.                                *)
(***************************************************************************)
MaxDuration == 3

ErrTargetNotFound == "target binary not found"
ErrStartTarget == "failed to start target binary"
ErrRunningTarget == "error running target binary"
SignalKilled == "signal: killed"
ExitStatus1 == "exit status 1"

\* what the target does when left alone: run on, or exit with a status
TargetPlans == { "runs on", Nil, ExitStatus1 }

Profile(at, exists, starts, plan, duration, timer, left, target, status, ret) ==
  [at |-> at, exists |-> exists, starts |-> starts, plan |-> plan,
   duration |-> duration, timer |-> timer, left |-> left, target |-> target,
   status |-> status, ret |-> ret]

InitProfile ==
  /\ fs = [p \in Universe |-> NoNode]
  /\ pc = "idle"
  /\ pending = << >>
  /\ calls = << >>
  /\ units = << >>
  /\ probe = NoProbe
  /\ race = NoRace
  /\ srv = NoServer
  /\ wd = Cwd
  /\ \E exists \in BOOLEAN, starts \in BOOLEAN, plan \in TargetPlans,
        duration \in 0..MaxDuration :
       prof = Profile("call", exists, starts, plan, duration, "none", 0, "none",
                      "", "")

\* err of cmd.Wait that makes CPUProfile fail, whatever it is
WaitResult_KilledIsError(status) ==
  IF status # Nil THEN ErrRunningTarget ELSE Nil

\* lines 43-46: what CPUProfile returns for the err of cmd.Wait
WaitResult(status) ==
  IF status # Nil /\ status # SignalKilled THEN ErrRunningTarget ELSE Nil

\* lines 16-40: os.Stat, cmd.Start and the go statement
StartTarget ==
  /\ prof.at = "call"
  /\ prof' = IF ~prof.exists
             THEN [prof EXCEPT !.at = "returned", !.ret = ErrTargetNotFound]
             ELSE IF ~prof.starts
             THEN [prof EXCEPT !.at = "returned", !.ret = ErrStartTarget]
             ELSE [prof EXCEPT !.at = "wait", !.target = "running",
                               !.timer = "sleeping", !.left = prof.duration]
  /\ UNCHANGED << fs, pc, pending, calls, units, probe, race, srv, wd >>

\* a second of time.Sleep goes by
Sleep ==
  /\ prof.timer = "sleeping"
  /\ prof.left > 0
  /\ prof' = [prof EXCEPT !.left = @ - 1]
  /\ UNCHANGED << fs, pc, pending, calls, units, probe, race, srv, wd >>

\* cmd.Process.Kill(): it ends a running target, and fails without effect
\* on one that has exited
Kill ==
  /\ prof.timer = "sleeping"
  /\ prof.left = 0
  /\ prof' = IF prof.target = "running"
             THEN [prof EXCEPT !.timer = "done", !.target = "exited",
                               !.status = SignalKilled]
             ELSE [prof EXCEPT !.timer = "done"]
  /\ UNCHANGED << fs, pc, pending, calls, units, probe, race, srv, wd >>

\* the target exits on its own
TargetExits ==
  /\ prof.target = "running"
  /\ prof.plan # "runs on"
  /\ prof' = [prof EXCEPT !.target = "exited", !.status = prof.plan]
  /\ UNCHANGED << fs, pc, pending, calls, units, probe, race, srv, wd >>

\* cmd.Wait returns once the target has exited (lines 43-52)
WaitReturns ==
  /\ prof.at = "wait"
  /\ prof.target = "exited"
  /\ prof' = [prof EXCEPT !.at = "returned", !.ret = WaitResult(prof.status)]
  /\ UNCHANGED << fs, pc, pending, calls, units, probe, race, srv, wd >>

NextProfile ==
  \/ StartTarget
  \/ Sleep
  \/ Kill
  \/ TargetExits
  \/ WaitReturns

SpecProfile == InitProfile /\ [][NextProfile]_vars

\* the timer goroutine and the caller are scheduled; nothing is assumed of
\* the target
SpecProfileFair ==
  /\ SpecProfile
  /\ WF_vars(Sleep)
  /\ WF_vars(Kill)
  /\ WF_vars(WaitReturns)

(***************************************************************************)
(* Units with methods: an *ast.FuncDecl is a function (no receiver) or a   *)
(* method of a type.  The units are those a Go file can hold: no two       *)
(* functions of one name, no two methods of one name on one type.          *)
(***************************************************************************)
Circle == << "C", "i", "r", "c", "l", "e" >>
Square == << "S", "q", "u", "a", "r", "e" >>

\* a function declaration with its receiver type (empty for a function)
FuncDecl(recv, name) == [kind |-> "func", name |-> name, recv |-> recv]

MethodChoices ==
  { FuncDecl(recv, name) : recv \in { << >>, Circle, Square },
                           name \in { Area, perimeter } }
  \cup { [kind |-> "type", name |-> Circle, recv |-> << >>] }

MethodLists ==
  { decls \in UNION { [1..n -> MethodChoices] : n \in 0..MaxDecls } :
      \A i, j \in DOMAIN decls : i # j => decls[i] # decls[j] }

InitMethods ==
  /\ fs = [p \in Universe |-> NoNode]
  /\ pc = "idle"
  /\ pending = << >>
  /\ calls = << >>
  /\ units = << >>
  /\ race = NoRace
  /\ srv = NoServer
  /\ prof = NoProfile
  /\ wd = Cwd
  /\ \E decls \in MethodLists, tableTests \in BOOLEAN :
       probe = RenderProbe(shapes, decls, tableTests, << >>, << >>, FALSE)

SpecMethods == InitMethods /\ [][NextRender]_vars

(***************************************************************************)
(* The API server handling its requests one at a time.  A handler tests    *)
(* the method, the form and the path, creates the temporary file, points   *)
(* os.Stdout at it, runs its operation, reads the file back and answers;   *)
(* its deferred calls run when it returns.                                 *)
(***************************************************************************)
MaxRequests == 2

Handlers ==
  { "healthCheckHandler", "analyzeStructureHandler", "analyzeQualityHandler",
    "checkDependenciesHandler", "generateDocsHandler" }

\* the method a handler accepts
RequiredMethod(handler) == IF handler = "healthCheckHandler" THEN "GET" ELSE "POST"

NoRequest == << >>

\* one request and what its handler did for it: the temporary file it
\* created (0 for none), whether it redirected os.Stdout and called its
\* operation, the lines the operation printed, the responses sent
Exchange(handler, method, formOk, path) ==
  [handler |-> handler, method |-> method, formOk |-> formOk, path |-> path,
   temp |-> 0, oldStdout |-> Original, redirected |-> FALSE, ran |-> FALSE,
   printed |-> 0, responses |-> 0, status |-> 0, output |-> << >>,
   outcome |-> "none"]

\* sendJSON / sendError
Respond(req, status, output, outcome) ==
  [req EXCEPT !.responses = @ + 1, !.status = status, !.output = output,
              !.outcome = outcome]

\* the tests of a handler that leaves out the test of the path
Validate_PathUnchecked(handler, method, formOk, path) ==
  IF method # RequiredMethod(handler) THEN 405
  ELSE IF handler = "healthCheckHandler" THEN 200
  ELSE IF ~formOk THEN 400
  ELSE 0

\* the status a handler answers with before it acts; 0 when it goes on
Validate(handler, method, formOk, path) ==
  IF method # RequiredMethod(handler) THEN 405
  ELSE IF handler = "healthCheckHandler" THEN 200
  ELSE IF ~formOk THEN 400
  ELSE IF path = "" THEN 400
  ELSE 0

\* the deferred calls that close the temporary file and leave it in place
RunDeferred_KeepsFile(s, req) ==
  [s EXCEPT !.stdout = RestoredStdout(s.stdout, req.oldStdout),
            !.temp[req.temp].state = "closed",
            !.at = "idle",
            !.cur = NoRequest,
            !.served = Append(@, req)]

\* the handler returns: os.Stdout = oldStdout, tempFile.Close(),
\* os.Remove(tempFile.Name())
RunDeferred(s, req) ==
  [s EXCEPT !.stdout = RestoredStdout(s.stdout, req.oldStdout),
            !.temp[req.temp].state = "removed",
            !.at = "idle",
            !.cur = NoRequest,
            !.served = Append(@, req)]

InitSerial ==
  /\ fs = [p \in Universe |-> NoNode]
  /\ pc = "idle"
  /\ pending = << >>
  /\ calls = << >>
  /\ units = << >>
  /\ probe = NoProbe
  /\ race = NoRace
  /\ srv = [stdout |-> Original,
            console |-> 0,
            temp |-> [n \in 1..MaxRequests |-> TempFile("none", << >>)],
            at |-> "idle",
            cur |-> NoRequest,
            served |-> << >>]
  /\ prof = NoProfile
  /\ wd = Cwd

\* a request arrives and its handler runs up to the call of its operation
Serve(handler, method, formOk, path, tempOk) ==
  /\ srv.at = "idle"
  /\ Len(srv.served) < MaxRequests
  /\ LET n == Len(srv.served) + 1
         req == Exchange(handler, method, formOk, path)
         status == Validate(handler, method, formOk, path)
     IN  srv' =
           IF status = 200
           THEN [srv EXCEPT !.served = Append(@, Respond(req, 200, << >>, "healthy"))]
           ELSE IF status # 0
           THEN [srv EXCEPT !.served = Append(@, Respond(req, status, << >>, "rejected"))]
           ELSE IF ~tempOk
           THEN [srv EXCEPT !.served = Append(@, Respond(req, 500, << >>, "no temporary file"))]
           ELSE [srv EXCEPT !.temp[n] = TempFile("open", << >>),
                            !.stdout = n,
                            !.at = "run",
                            !.cur = [req EXCEPT !.temp = n,
                                                !.oldStdout = srv.stdout,
                                                !.redirected = TRUE,
                                                !.ran = TRUE]]
  /\ UNCHANGED << fs, pc, pending, calls, units, probe, race, prof, wd >>

\* one line printed by the operation, to whatever os.Stdout is now
OperationPrints ==
  /\ srv.at = "run"
  /\ srv.cur.printed < MaxPrints
  /\ srv' = IF srv.stdout = Original
            THEN [srv EXCEPT !.cur.printed = @ + 1, !.console = @ + 1]
            ELSE IF srv.temp[srv.stdout].state = "open"
            THEN [srv EXCEPT !.cur.printed = @ + 1,
                             !.temp[srv.stdout].text = Append(@, srv.cur.temp)]
            ELSE [srv EXCEPT !.cur.printed = @ + 1]
  /\ UNCHANGED << fs, pc, pending, calls, units, probe, race, prof, wd >>

\* the operation returns; with an error the handler answers 500 and returns
OperationReturns(ok) ==
  /\ srv.at = "run"
  /\ srv' = IF ok THEN [srv EXCEPT !.at = "read"]
            ELSE RunDeferred(srv, Respond(srv.cur, 500, << >>, "operation error"))
  /\ UNCHANGED << fs, pc, pending, calls, units, probe, race, prof, wd >>

\* tempFile.Seek, os.ReadFile(tempFile.Name()), the answer and the return
ReadCapture(readOk) ==
  /\ srv.at = "read"
  /\ srv' = IF readOk
            THEN RunDeferred(srv, Respond(srv.cur, 200, srv.temp[srv.cur.temp].text,
                                          "success"))
            ELSE RunDeferred(srv, Respond(srv.cur, 500, << >>, "read error"))
  /\ UNCHANGED << fs, pc, pending, calls, units, probe, race, prof, wd >>

NextSerial ==
  \/ \E handler \in Handlers, method \in { "GET", "POST" }, formOk \in BOOLEAN,
        path \in { "", "p" }, tempOk \in BOOLEAN :
       Serve(handler, method, formOk, path, tempOk)
  \/ OperationPrints
  \/ \E ok \in BOOLEAN : OperationReturns(ok)
  \/ \E readOk \in BOOLEAN : ReadCapture(readOk)

SpecSerial == InitSerial /\ [][NextSerial]_vars

(***************************************************************************)
(* The operations that work inside the project directory: CheckOutdated,   *)
(* Update, CheckSecurity and AnalyzeCoverage, called one after another.    *)
(* Each takes the working directory, defers the return to it, enters the   *)
(* project and runs its external commands, any of which may fail.          *)
(***************************************************************************)
MaxOperations == 2

Operations == { "CheckOutdated", "Update", "CheckSecurity", "AnalyzeCoverage" }

\* the steps of an operation after os.Chdir that can make it return an error
Commands(operation) ==
  IF operation = "CheckOutdated" THEN << "go list" >>
  ELSE IF operation = "Update" THEN << "go get", "go mod tidy" >>
  ELSE IF operation = "CheckSecurity" THEN << >>
  ELSE << "go test", "stat coverage.out", "go tool cover -func",
          "go tool cover -html" >>

\* filepath.Abs in a process whose working directory is dir
AbsFrom(dir, p) == IF IsAbs(p) THEN p ELSE dir \o p

\* a project tree: /w/r with a hidden directory and a source file, and /w/o
ProjectTree ==
  [p \in Universe |->
     IF p \in { Cwd, Root, OutDir, Hidden } THEN DirNode
     ELSE IF p = Join(Root, nA) THEN FileNode(Shapes)
     ELSE NoNode]

\* the paths an operation is given: ".", "r", "o", "nx", /w/r, /w/r/a.go
ProjectArgs == { << >>, << nR >>, << nO >>, << nNx >>, Root, Join(Root, nA) }

\* an operation in progress or returned
Operation(operation, path, absPath, originalDir, step, ret, after) ==
  [operation |-> operation, path |-> path, absPath |-> absPath,
   originalDir |-> originalDir, step |-> step, ret |-> ret, after |-> after]

ErrGetwd == "failed to get current directory"
ErrChdir == "failed to change to project directory"
ErrCommand == "failed to run a command"

\* the deferred call that leaves the process where the operation put it
DeferredChdir_Stays(dir, originalDir) == dir

\* defer os.Chdir(originalDir)
DeferredChdir(dir, originalDir) == originalDir

InitChdir ==
  /\ fs = ProjectTree
  /\ pc = "idle"
  /\ pending = << >>
  /\ calls = << >>
  /\ units = << >>
  /\ probe = [at |-> "idle", cur |-> << >>, done |-> << >>]
  /\ race = NoRace
  /\ srv = NoServer
  /\ prof = NoProfile
  /\ wd \in { Cwd, Root, OutDir, Hidden }

\* the operation is called: filepath.Abs, os.Getwd, the defer, os.Chdir
EnterProject(operation, path, getwdOk) ==
  /\ probe.at = "idle"
  /\ Len(probe.done) < MaxOperations
  /\ LET absPath == AbsFrom(wd, path)
         op == Operation(operation, path, absPath, wd, 1, Running, << >>)
     IN  IF ~getwdOk
         THEN /\ wd' = wd
              /\ probe' = [probe EXCEPT
                   !.done = Append(@, [op EXCEPT !.ret = ErrGetwd, !.after = wd])]
         ELSE IF ~(absPath \in Universe /\ fs[absPath].type = "dir")
         THEN /\ wd' = DeferredChdir(wd, wd)
              /\ probe' = [probe EXCEPT
                   !.done = Append(@, [op EXCEPT !.ret = ErrChdir, !.after = wd'])]
         ELSE /\ wd' = absPath
              /\ probe' = [probe EXCEPT !.at = "in", !.cur = op]
  /\ UNCHANGED << fs, pc, pending, calls, units, race, srv, prof >>

\* the next external command of the operation runs, and succeeds or fails
RunCommand(ok) ==
  /\ probe.at = "in"
  /\ probe.cur.step <= Len(Commands(probe.cur.operation))
  /\ IF ok
     THEN /\ wd' = wd
          /\ probe' = [probe EXCEPT !.cur.step = @ + 1]
     ELSE /\ wd' = DeferredChdir(wd, probe.cur.originalDir)
          /\ probe' = [at |-> "idle", cur |-> << >>,
                       done |-> Append(probe.done,
                                  [probe.cur EXCEPT !.ret = ErrCommand, !.after = wd'])]
  /\ UNCHANGED << fs, pc, pending, calls, units, race, srv, prof >>

\* the operation returns nil after its last command
ReturnNil ==
  /\ probe.at = "in"
  /\ probe.cur.step > Len(Commands(probe.cur.operation))
  /\ wd' = DeferredChdir(wd, probe.cur.originalDir)
  /\ probe' = [at |-> "idle", cur |-> << >>,
               done |-> Append(probe.done,
                          [probe.cur EXCEPT !.ret = Nil, !.after = wd'])]
  /\ UNCHANGED << fs, pc, pending, calls, units, race, srv, prof >>

NextChdir ==
  \/ \E operation \in Operations, path \in ProjectArgs, getwdOk \in BOOLEAN :
       EnterProject(operation, path, getwdOk)
  \/ \E ok \in BOOLEAN : RunCommand(ok)
  \/ ReturnNil

SpecChdir == InitChdir /\ [][NextChdir]_vars

(***************************************************************************)
(* AnalyzeStructure: one walk over the tree below the path, counting the   *)
(* directories, the Go files and the directories that hold a Go file.      *)
(***************************************************************************)
\* the paths of the trees analysed; a tree holds the parent of each path
StructurePaths ==
  { Root, OutDir, Hidden, Join(Cwd, nNx), Join(Root, nA), Join(Root, nB),
    Join(Root, nC), Join(Root, nATest), Join(Hidden, nA), Join(OutDir, nATest) }

StructureTrees ==
  { [p \in Universe |->
       IF p = Cwd THEN DirNode
       ELSE IF p \notin S THEN NoNode
       ELSE IF p \in { Root, OutDir, Hidden } THEN DirNode
       ELSE IF p = Join(Cwd, nNx) THEN FileNode(NoContent)
       ELSE FileNode(Shapes)] :
    S \in { T \in SUBSET StructurePaths :
              \A p \in T : Dir(p) = Cwd \/ Dir(p) \in T } }

\* the paths AnalyzeStructure is given: ".", "r", "o", "r/.h", "r/a.go", "nx"
StructureArgs ==
  { << >>, << nR >>, << nO >>, << nR, nH >>, << nR, nA >>, << nNx >> }

ErrWalking == "error walking directory"

\* dirCount, fileCount and pkgMap
Counts(dirCount, fileCount, pkgMap) ==
  [dirCount |-> dirCount, fileCount |-> fileCount, pkgMap |-> pkgMap]

\* the call and the summary it printed
Summary(path, counts, ret, done) ==
  [path |-> path, dirCount |-> counts.dirCount, fileCount |-> counts.fileCount,
   packages |-> Cardinality(counts.pkgMap), pkgMap |-> counts.pkgMap,
   ret |-> ret, done |-> done]

\* the walk that does not count a hidden directory but goes into it
RECURSIVE WalkStructure_EntersHidden(_, _, _)
WalkStructure_EntersHidden(fsys, todo, counts) ==
  IF todo = << >> THEN counts
  ELSE LET path == Head(todo)
           names == ReadDirNames(fsys, path)
           below == [i \in 1..Len(names) |-> Join(path, names[i])]
       IN  IF HasPrefix(Base(path), << "." >>)
           THEN IF IsDir(fsys, path)
                THEN WalkStructure_EntersHidden(fsys, below \o Tail(todo), counts)
                ELSE WalkStructure_EntersHidden(fsys, Tail(todo), counts)
           ELSE IF IsDir(fsys, path)
           THEN WalkStructure_EntersHidden(fsys, below \o Tail(todo),
                              [counts EXCEPT !.dirCount = @ + 1])
           ELSE IF HasSuffix(PathString(path), DotGo)
           THEN WalkStructure_EntersHidden(fsys, Tail(todo),
                              [counts EXCEPT !.fileCount = @ + 1,
                                             !.pkgMap = @ \cup { Dir(path) }])
           ELSE WalkStructure_EntersHidden(fsys, Tail(todo), counts)

\* filepath.Walk with the function of lines 25-52: todo holds the paths
\* still to visit, in the order of the walk
RECURSIVE WalkStructure(_, _, _)
WalkStructure(fsys, todo, counts) ==
  IF todo = << >> THEN counts
  ELSE LET path == Head(todo)
           names == ReadDirNames(fsys, path)
           below == [i \in 1..Len(names) |-> Join(path, names[i])]
       IN  IF HasPrefix(Base(path), << "." >>)
           THEN WalkStructure(fsys, Tail(todo), counts)
           ELSE IF IsDir(fsys, path)
           THEN WalkStructure(fsys, below \o Tail(todo),
                              [counts EXCEPT !.dirCount = @ + 1])
           ELSE IF HasSuffix(PathString(path), DotGo)
           THEN WalkStructure(fsys, Tail(todo),
                              [counts EXCEPT !.fileCount = @ + 1,
                                             !.pkgMap = @ \cup { Dir(path) }])
           ELSE WalkStructure(fsys, Tail(todo), counts)

InitStructure ==
  /\ fs \in StructureTrees
  /\ pc = "idle"
  /\ pending = << >>
  /\ calls = << >>
  /\ units = << >>
  /\ probe = Summary(<< >>, Counts(0, 0, {}), Running, FALSE)
  /\ race = NoRace
  /\ srv = NoServer
  /\ prof = NoProfile
  /\ wd = Cwd

\* AnalyzeStructure(path): a root that cannot be read ends the walk with
\* the error, and no summary is printed
AnalyzeStructure(path) ==
  /\ ~probe.done
  /\ LET absPath == Abs(path)
     IN  probe' =
           IF ~Exists(fs, absPath)
           THEN Summary(path, Counts(0, 0, {}), ErrWalking, TRUE)
           ELSE Summary(path, WalkStructure(fs, << absPath >>, Counts(0, 0, {})),
                        Nil, TRUE)
  /\ UNCHANGED << fs, pc, pending, calls, units, race, srv, prof, wd >>

NextStructure == \E path \in StructureArgs : AnalyzeStructure(path)

SpecStructure == InitStructure /\ [][NextStructure]_vars

TypeOK ==
  /\ pc \in { "idle", "walk" }
  /\ Len(calls) <= MaxRuns
  /\ (pc = "walk") = (pending # << >>)

(***************************************************************************)
(* Vocabulary of the properties.                                           *)
(***************************************************************************)
Generated(u) == u.err = Nil /\ u.msg = MsgGenerated
Skipped(u) == u.err = Nil /\ u.msg = MsgSkipping
Failed(u) == u.err # Nil

UpperCase ==
  { "A", "B", "C", "D", "E", "F", "G", "H", "I", "J", "K", "L", "M",
    "N", "O", "P", "Q", "R", "S", "T", "U", "V", "W", "X", "Y", "Z" }

\* the indices of the function declarations with an upper-case initial
ExportedFuncIndices(decls) ==
  { i \in DOMAIN decls : decls[i].kind = "func" /\ decls[i].name[1] \in UpperCase }

\* the file is a valid unit with at least one / without any exported function
HasExportedFunc(content) == content.ok /\ ExportedFuncIndices(content.Decls) # {}
HasNoExportedFunc(content) == content.ok /\ ExportedFuncIndices(content.Decls) = {}

\* <dir>/<name>_test.go for <dir>/<name>.go, or <outputDir>/<name>_test.go
Companion(path, outputDir) ==
  LET base == path[Len(path)]
      stem == SubSeq(base, 1, Len(base) - 3)
      dir == IF outputDir = << >> THEN SubSeq(path, 1, Len(path) - 1) ELSE outputDir
  IN  dir \o << stem \o << "_", "t", "e", "s", "t", ".", "g", "o" >> >>

\* this step is one call of generateTestForFile; its record; its invocation
UnitStep == Len(units') = Len(units) + 1
NewUnit == units'[Len(units')]
StepCall == calls'[Len(calls')]

\* the step replaces or creates the regular file at p
Written(p) == fs'[p].type = "file" /\ fs'[p] # fs[p]

\* invocation k was given a directory and has returned
DirRunDone(k) == calls[k].ret # Running /\ fs[Abs(calls[k].path)].type = "dir"

\* p lies under the root with no dot-prefixed component below the root
NotHidden(p) == \A i \in (Len(Root) + 1)..Len(p) : p[i][1] # "."

\* the candidate files of the tree under the root
TreeCandidates ==
  { p \in Universe :
      /\ fs[p].type = "file"
      /\ Len(p) > Len(Root) /\ SubSeq(p, 1, Len(Root)) = Root
      /\ HasSuffix(p[Len(p)], DotGo) /\ ~HasSuffix(p[Len(p)], TestDotGo)
      /\ NotHidden(p) }

Processed(k, p) == \E i \in DOMAIN units : units[i].run = k /\ units[i].path = p

(***************************************************************************)
(* C1: GenerateTests never overwrites an existing file: no step changes a  *)
(* regular file that exists, and a unit that gets as far as its output     *)
(* path (it parses and has an exported function, lines 242-266) while that *)
(* path exists fails with "test file already exists", in every run.        *)
(***************************************************************************)
C1_NeverOverwrites ==
  [][ /\ \A p \in Universe : fs[p].type = "file" => fs'[p] = fs[p]
      /\ ( /\ UnitStep
           /\ HasExportedFunc(fs[NewUnit.path].content)
           /\ Exists(fs, Companion(NewUnit.path, StepCall.outputDir)) )
         => /\ NewUnit.err = ErrExists
            /\ NewUnit.out = Companion(NewUnit.path, StepCall.outputDir) ]_vars

\* a unit was refused over a hand-written companion, which is still there
C1_Witness ==
  \E i \in DOMAIN units :
    /\ units[i].err = ErrExists
    /\ fs[Abs(units[i].out)] = FileNode(HandWritten)

(***************************************************************************)
(* C2: in directory mode, when one candidate fails to parse, every other   *)
(* candidate file of the tree is still processed.                          *)
(***************************************************************************)
C2_ParseFailureIsolated ==
  \A k \in DOMAIN calls :
    ( /\ DirRunDone(k)
      /\ \E i \in DOMAIN units : units[i].run = k /\ units[i].err = ErrParse )
    => \A p \in TreeCandidates : Processed(k, p)

(***************************************************************************)
(* C3: in directory mode, when one unit's companion file exists, that unit *)
(* is recorded as failed and all remaining candidates are processed.       *)
(***************************************************************************)
C3_CollisionIsolated ==
  \A k \in DOMAIN calls :
    ( /\ DirRunDone(k)
      /\ \E i \in DOMAIN units : units[i].run = k /\ units[i].err = ErrExists )
    => \A p \in TreeCandidates : Processed(k, p)

(***************************************************************************)
(* C4: a valid unit with no exported function is skipped: no error, no     *)
(* change to the file system, and the walk goes on (or ends without        *)
(* error when the unit was the last path).                                 *)
(***************************************************************************)
C4_NoExportedSkipped ==
  [][ (UnitStep /\ HasNoExportedFunc(fs[NewUnit.path].content))
      => /\ Skipped(NewUnit)
         /\ fs' = fs
         /\ (pc' = "idle" => StepCall.ret = Nil) ]_vars

\* a unit was skipped and a later unit of the same run was processed
C4_Witness ==
  \E i, j \in DOMAIN units :
    /\ i < j
    /\ units[i].run = units[j].run
    /\ Skipped(units[i])
    /\ fs[units[i].path] = FileNode(NoExported)

(***************************************************************************)
(* C5: a second run over the same directory with the same output           *)
(* directory yields an "already exists" failure for every unit the first   *)
(* run generated, and the files of the first run are still there.          *)
(***************************************************************************)
C5_SecondRunRefusesAll ==
  ( /\ Len(calls) >= 2
    /\ DirRunDone(1) /\ DirRunDone(2)
    /\ calls[2].path = calls[1].path
    /\ calls[2].outputDir = calls[1].outputDir )
  => \A i \in DOMAIN units :
       (units[i].run = 1 /\ Generated(units[i]))
       => /\ \E j \in DOMAIN units :
               /\ units[j].run = 2
               /\ units[j].path = units[i].path
               /\ units[j].err = ErrExists
          /\ fs[Abs(units[i].out)].type = "file"
          /\ fs[Abs(units[i].out)].content.kind = "rendered"

(***************************************************************************)
(* C6: in directory mode no dot-prefixed file and no file beneath a        *)
(* dot-prefixed directory is processed as a candidate.                     *)
(***************************************************************************)
C6_HiddenNeverProcessed ==
  \A i \in DOMAIN units :
    fs[Abs(calls[units[i].run].path)].type = "dir" => NotHidden(units[i].path)

(***************************************************************************)
(* C7: the testable symbols of a unit are its function declarations with   *)
(* an upper-case initial, each once, in source order: the k-th symbol is   *)
(* the k-th such declaration.                                              *)
(***************************************************************************)
C7_TestableSymbols ==
  probe.done =>
    LET idx == ExportedFuncIndices(probe.decls)
    IN  /\ Len(probe.functions) = Cardinality(idx)
        /\ \A k \in 1..Len(probe.functions) :
             LET i == CHOOSE i \in idx : Cardinality({ j \in idx : j < i }) = k - 1
             IN  /\ probe.functions[k].Name = probe.decls[i].name
                 /\ probe.functions[k].TableDriven = probe.tableTests

\* func Area, func perimeter, var DefaultColor yields Area alone
C7_Witness ==
  /\ probe.done
  /\ probe.decls = << Decl("func", Area), Decl("func", perimeter),
                      Decl("var", DefaultColor) >>
  /\ Len(probe.functions) = 1
  /\ probe.functions[1].Name = Area

(***************************************************************************)
(* C8: when the root path does not exist, GenerateTests returns the stat   *)
(* error at once: no unit is processed and the file system is untouched.   *)
(***************************************************************************)
C8_MissingRootFailsFirst ==
  [][ (Len(calls') = Len(calls) + 1 /\ fs[Abs(StepCall.path)].type = "none")
      => /\ StepCall.ret = ErrStat
         /\ fs' = fs
         /\ units' = units
         /\ pc' = "idle" ]_vars

\* an invocation on the missing root has returned
C8_Witness ==
  \E k \in DOMAIN calls :
    /\ calls[k].ret = ErrStat
    /\ fs[Abs(calls[k].path)].type = "none"

(***************************************************************************)
(* C9: GenerateTests returns an error only for structural errors (root     *)
(* missing, root neither a directory nor an eligible file); a parse error, *)
(* an output collision or a failure to create an output never makes the    *)
(* invocation return an error.                                             *)
(***************************************************************************)
C9_OnlyStructuralErrors ==
  \A k \in DOMAIN calls : calls[k].ret \in { Running, Nil, ErrStat, ErrNotGo }

(***************************************************************************)
(* C10: a generated unit's file is <dir>/<name>_test.go, or                *)
(* <outputDir>/<name>_test.go with outputDir made a directory; it did not  *)
(* exist before; and no step writes a file anywhere else.                  *)
(***************************************************************************)
C10_OutputPathRule ==
  [][ /\ (UnitStep /\ Generated(NewUnit))
         => LET want == Companion(NewUnit.path, StepCall.outputDir)
            IN  /\ NewUnit.out = want
                /\ fs[Abs(want)].type = "none"
                /\ fs'[Abs(want)].type = "file"
                /\ StepCall.outputDir # << >>
                   => fs'[Abs(StepCall.outputDir)].type = "dir"
      /\ \A p \in Universe :
           Written(p)
           => /\ UnitStep
              /\ Generated(NewUnit)
              /\ p = Abs(Companion(NewUnit.path, StepCall.outputDir)) ]_vars

\* a.go was generated into the output directory, which the run created
C10_Witness ==
  /\ fs[OutDir].type = "dir"
  /\ fs[Join(OutDir, nATest)].type = "file"
  /\ fs[Join(OutDir, nATest)].content.kind = "rendered"
  /\ \E i \in DOMAIN units :
       /\ Generated(units[i])
       /\ units[i].out = << nO, nATest >>

(***************************************************************************)
(* C11: over a directory of three source files, one without exported       *)
(* functions, one with a companion file already there and one ordinary, a  *)
(* run that writes beside the sources ends with exactly one unit           *)
(* generated, one skipped and one failed on the collision, in whichever    *)
(* order the walk meets the three.                                         *)
(***************************************************************************)
C11_OneOfEach ==
  ( /\ Len(calls) >= 1
    /\ DirRunDone(1)
    /\ calls[1].outputDir = << >> )
  => LET first == { i \in DOMAIN units : units[i].run = 1 }
     IN  /\ Cardinality({ i \in first : Generated(units[i]) }) = 1
         /\ Cardinality({ i \in first : Skipped(units[i]) }) = 1
         /\ Cardinality({ i \in first : units[i].err = ErrExists }) = 1

\* the texts of the template's lines
PackageText == "package {{.Package}}"
FuncText == "func Test{{.Name}}(t *testing.T) {"
CaseOneText == "name: \"test case 1\","
CaseTwoText == "name: \"test case 2\","
TableText == "tests := []struct {"
LoopText == "for _, tt := range tests {"
RunText == "t.Run(tt.name, func(t *testing.T) {"
TodoCallText == "// TODO: Call {{.Name}} with the test case inputs and verify outputs"
TodoWriteText == "// TODO: Write test for {{.Name}}"
CloseText == "}"

\* the lines of a rendering at which a test block starts, and the block
\* starting at one of them (up to the next block or the end of the file)
BlockStarts(lines) == { i \in DOMAIN lines : lines[i].text = FuncText }
BlockAt(lines, i) ==
  LET later == { j \in BlockStarts(lines) : j > i }
      last == IF later = {} THEN Len(lines)
              ELSE (CHOOSE j \in later : \A k \in later : j <= k) - 1
  IN  SubSeq(lines, i, last)
\* the k-th block start
NthStart(lines, k) ==
  CHOOSE i \in BlockStarts(lines) :
    Cardinality({ j \in BlockStarts(lines) : j < i }) = k - 1
\* the entries of a block's table: what is neither the frame of the test
\* function nor the declaration and loop of the table
IsCaseEntry(l) ==
  l.text \notin { FuncText, TableText, LoopText, RunText, TodoCallText,
                  TodoWriteText, CloseText }
CaseEntries(block) == SelectSeq(block, IsCaseEntry)
CountText(lines, text) == Cardinality({ i \in DOMAIN lines : lines[i].text = text })
Rendered == probe.done /\ probe.lines # << >>

(***************************************************************************)
(* C12 as stated: a table-driven rendering contains exactly two named      *)
(* cases, "test case 1" and "test case 2", however many testable symbols   *)
(* the unit has.                                                           *)
(***************************************************************************)
C12_TwoCasesPerFile ==
  (Rendered /\ probe.tableTests) =>
    /\ CountText(probe.lines, CaseOneText) = 1
    /\ CountText(probe.lines, CaseTwoText) = 1

(***************************************************************************)
(* C12, amended: in a table-driven rendering every test block holds a      *)
(* table of exactly two cases, "test case 1" then "test case 2"; a unit    *)
(* with N testable symbols therefore gets N tables and 2N cases.           *)
(***************************************************************************)
C12_TwoCasesPerBlock ==
  (Rendered /\ probe.tableTests) =>
    /\ Cardinality(BlockStarts(probe.lines)) = Len(probe.functions)
    /\ \A i \in BlockStarts(probe.lines) :
         CaseEntries(BlockAt(probe.lines, i))
           = << Line(CaseOneText, << >>), Line(CaseTwoText, << >>) >>
    /\ CountText(probe.lines, CaseOneText) = Len(probe.functions)
    /\ CountText(probe.lines, CaseTwoText) = Len(probe.functions)

\* a table-driven rendering of two symbols: two tables, four cases
C12_Witness ==
  /\ Rendered
  /\ probe.tableTests
  /\ Len(probe.functions) = 2
  /\ CountText(probe.lines, CaseOneText) = 2
  /\ CountText(probe.lines, CaseTwoText) = 2

(***************************************************************************)
(* C13: without the table option every test block is the function frame    *)
(* around one placeholder comment that names the block's symbol, with no   *)
(* table, case or loop in it; and in either mode all blocks of a file have *)
(* the same shape.                                                         *)
(***************************************************************************)
C13_FlatBlocks ==
  Rendered =>
    /\ Cardinality(BlockStarts(probe.lines)) = Len(probe.functions)
    /\ ~probe.tableTests =>
         /\ \A k \in 1..Len(probe.functions) :
              BlockAt(probe.lines, NthStart(probe.lines, k))
                = << Line(FuncText, probe.functions[k].Name),
                     Line(TodoWriteText, probe.functions[k].Name),
                     Line(CloseText, << >>) >>
         /\ \A i \in DOMAIN probe.lines :
              probe.lines[i].text \notin { TableText, CaseOneText, CaseTwoText,
                                           LoopText, RunText, TodoCallText }
    /\ \A i, j \in BlockStarts(probe.lines) :
         LET a == BlockAt(probe.lines, i)
             b == BlockAt(probe.lines, j)
         IN  /\ Len(a) = Len(b)
             /\ \A k \in DOMAIN a : a[k].text = b[k].text

\* func Parse rendered without the table option
C13_Witness ==
  /\ Rendered
  /\ ~probe.tableTests
  /\ probe.decls = << Decl("func", Parse) >>
  /\ probe.lines[4] = Line(TodoWriteText, Parse)
  /\ Len(probe.lines) = 5

(***************************************************************************)
(* C14: a rendered file starts with the package clause of the source       *)
(* unit's package and the import; after this header comes one test block   *)
(* per exported function of the unit and nothing else, the k-th block      *)
(* named after the k-th exported function in source order.                 *)
(***************************************************************************)
C14_HeaderAndBlocks ==
  Rendered =>
    LET idx == ExportedFuncIndices(probe.decls)
        starts == BlockStarts(probe.lines)
    IN  /\ probe.lines[1] = Line(PackageText, probe.Package)
        /\ \A i \in starts : i > 2
        /\ 3 \in starts
        /\ Cardinality(starts) = Cardinality(idx)
        /\ \A k \in 1..Cardinality(idx) :
             LET d == CHOOSE d \in idx : Cardinality({ j \in idx : j < d }) = k - 1
             IN  probe.lines[NthStart(probe.lines, k)]
                   = Line(FuncText, probe.decls[d].name)

\* package geometry with func Parse, a type, func perimeter, func Area:
\* TestParse then TestArea
C14_Witness ==
  /\ Rendered
  /\ probe.Package = geometry
  /\ probe.decls = << Decl("func", Parse), Decl("type", DefaultColor),
                      Decl("func", Area) >>
  /\ probe.lines[1] = Line(PackageText, geometry)
  /\ probe.lines[3] = Line(FuncText, Parse)
  /\ \E i \in 4..Len(probe.lines) : probe.lines[i] = Line(FuncText, Area)

\* what the renderer is given for a generated unit: package name, ordered
\* symbol list and table option
RenderRequest(u) ==
  LET node == ParseFile(fs[u.path].content)
  IN  [Package |-> node.Name,
       Functions |-> ExportedFunctions(node.Decls, calls[u.run].tableTests)]

(***************************************************************************)
(* C15: the text written for a unit depends on the package name, the       *)
(* ordered symbol list and the table option alone: any two generated files *)
(* with the same three are identical, whatever their source paths, their   *)
(* output directories, and the units and runs that came before them.       *)
(***************************************************************************)
C15_SameRequestSameText ==
  \A i, j \in DOMAIN units :
    (i < j /\ Generated(units[i]) /\ Generated(units[j]))
    => \/ fs[Abs(units[i].out)].content = fs[Abs(units[j].out)].content
       \/ RenderRequest(units[i]) # RenderRequest(units[j])

\* two files generated from different sources with the same request, in
\* different runs with different output directories, the later one after
\* other units of its run
C15_Witness ==
  \E i, j \in DOMAIN units :
    /\ i + 1 < j
    /\ Generated(units[i])
    /\ Generated(units[j])
    /\ RenderRequest(units[i]) = RenderRequest(units[j])
    /\ units[i].path # units[j].path
    /\ units[i].run # units[j].run
    /\ units[j - 1].run = units[j].run
    /\ calls[units[i].run].outputDir # calls[units[j].run].outputDir
    /\ fs[Abs(units[i].out)].content = fs[Abs(units[j].out)].content
    /\ fs[Abs(units[i].out)].content.lines # << >>

(***************************************************************************)
(* C16: a companion file is created only where no file is: no step of a    *)
(* call replaces a regular file that exists when the step is taken, also   *)
(* when two calls aiming at one output path run at the same time.          *)
(***************************************************************************)
C16_CreateNew ==
  [][\A p \in Universe : fs[p].type = "file" => fs'[p] = fs[p]]_vars

\* p is a regular file below directory d, at any depth
FileBelow(p, d) ==
  /\ fs[p].type = "file"
  /\ Len(p) > Len(d)
  /\ SubSeq(p, 1, Len(d)) = d
\* the name of p ends in ".go" but not in "_test.go"
SourceName(p) == HasSuffix(Base(p), DotGo) /\ ~HasSuffix(Base(p), TestDotGo)

(***************************************************************************)
(* C17: in directory mode the walk hands a path to generateTestForFile     *)
(* exactly when it is a regular file whose name ends in ".go" and not in   *)
(* "_test.go"; a run that returns without error has handed over every such *)
(* file below its root; and no file named "..._test.go" is ever parsed or  *)
(* given a companion, in any run.                                          *)
(***************************************************************************)
C17_CandidateSet ==
  /\ [][pc = "walk" =>
          /\ UnitStep <=> (fs[Head(pending)].type = "file" /\ SourceName(Head(pending)))
          /\ UnitStep => /\ NewUnit.path = Head(pending)
                         /\ FileBelow(NewUnit.path, Abs(calls[Len(calls)].path))]_vars
  /\ [](\A k \in DOMAIN calls :
          (DirRunDone(k) /\ calls[k].ret = Nil) =>
            \A p \in Universe :
              (FileBelow(p, Abs(calls[k].path)) /\ SourceName(p)) => Processed(k, p))
  /\ [](\A i \in DOMAIN units : ~HasSuffix(Base(units[i].path), TestDotGo))

\* a directory run that ended without error over a.go, a hand-written
\* a_test.go and b.go: a.go and b.go were handed over, a_test.go was not
C17_Witness ==
  /\ Len(calls) >= 1
  /\ DirRunDone(1)
  /\ calls[1].ret = Nil
  /\ fs[Join(Root, nATest)] = FileNode(HandWritten)
  /\ Processed(1, Join(Root, nA))
  /\ Processed(1, Join(Root, nB))
  /\ ~Processed(1, Join(Root, nATest))

(***************************************************************************)
(* C18: when an invocation on a directory has returned, every candidate    *)
(* below its root has an outcome (generated, skipped, or failed with its   *)
(* reason), and the output ends with a count of the outcomes, a line that  *)
(* is neither the opening line nor the line of a unit.                     *)
(***************************************************************************)
C18_ReportsEveryCandidate ==
  \A k \in DOMAIN calls :
    DirRunDone(k) =>
      /\ \A p \in Universe :
           (FileBelow(p, Abs(calls[k].path)) /\ SourceName(p)) =>
             \E i \in DOMAIN units :
               /\ units[i].run = k
               /\ units[i].path = p
               /\ Generated(units[i]) \/ Skipped(units[i]) \/ Failed(units[i])
      /\ LET out == Stdout(k)
         IN  out[Len(out)].text \notin { MsgGenerating, MsgGenerated, MsgSkipping }

\* both requests have been answered and their handlers have returned
BothReturned == \A r \in Requests : srv.req[r].at = "done"
\* os.Stdout is left pointing at the closed temporary file of a request
StdoutDangling == srv.stdout # Original /\ srv.temp[srv.stdout].state = "closed"
\* the response to r holds a line printed by the command of another request
ForeignNarration(r) ==
  \E i \in DOMAIN srv.req[r].output : srv.req[r].output[i] # r

(***************************************************************************)
(* C19: the capture of output through os.Stdout is not reentrant.  After   *)
(* both handlers have returned, os.Stdout is the original stream or the    *)
(* closed temporary file of one of the two requests, and it is left on a   *)
(* closed file, or a response holds lines of the other request, only when  *)
(* the two requests overlapped; with overlapping requests both do happen   *)
(* (C19_Witness).                                                          *)
(***************************************************************************)
C19_StdoutSwapNotReentrant ==
  BothReturned =>
    /\ srv.stdout = Original \/ StdoutDangling
    /\ StdoutDangling => srv.overlap
    /\ \A r \in Requests : ForeignNarration(r) => srv.overlap

\* both handlers have returned, os.Stdout is a closed temporary file and
\* one response holds what the other request's command printed
C19_Witness ==
  /\ BothReturned
  /\ StdoutDangling
  /\ \E r \in Requests : srv.req[r].status = 200 /\ ForeignNarration(r)

(***************************************************************************)
(* C20: every invocation returns: a walk that has begun ends.  Within one  *)
(* run no file is handed to generateTestForFile twice, and no file the run *)
(* has generated is handed to it, not even when the output directory is a  *)
(* part of the tree that the walk reads after the file was written.        *)
(***************************************************************************)
C20_Terminates ==
  /\ [](\A i, j \in DOMAIN units :
          (i # j /\ units[i].run = units[j].run) =>
            /\ units[i].path # units[j].path
            /\ Generated(units[i]) => units[j].path # Abs(units[i].out))
  /\ (pc = "walk") ~> (pc = "idle")

\* a run has returned after writing .c_test.go into a directory it went on
\* to read: the file is there, below the root, and was not made a unit
C20_Witness ==
  /\ Len(calls) >= 1
  /\ DirRunDone(1)
  /\ calls[1].outputDir = << nR, nH >>
  /\ \E i \in DOMAIN units :
       /\ units[i].run = 1
       /\ Generated(units[i])
       /\ Abs(units[i].out) = Join(Hidden, nCTest)
       /\ FileBelow(Abs(units[i].out), Abs(calls[1].path))
  /\ Processed(1, Join(Hidden, nA))
  /\ ~Processed(1, Join(Hidden, nCTest))

\* the outcomes of run k, in the order they came about
RECURSIVE OutcomesOf(_, _)
OutcomesOf(us, k) ==
  IF us = << >> THEN << >>
  ELSE (IF Head(us).run = k
        THEN << [path |-> Head(us).path, err |-> Head(us).err,
                 msg |-> Head(us).msg, out |-> Head(us).out] >>
        ELSE << >>)
       \o OutcomesOf(Tail(us), k)

\* the order of the walk: the names compared one after the other, a
\* directory before what it contains
RECURSIVE WalkLess(_, _)
WalkLess(p, q) ==
  IF q = << >> THEN FALSE
  ELSE IF p = << >> THEN TRUE
  ELSE IF Head(p) # Head(q) THEN StrLess(Head(p), Head(q))
  ELSE WalkLess(Tail(p), Tail(q))

(***************************************************************************)
(* C21: the units of a run come one after the other in the lexical order   *)
(* of the walk, and a run is a function of the tree and the options: runs  *)
(* with the same options over identical trees process the same units in    *)
(* the same order with the same outcomes and return the same value.        *)
(***************************************************************************)
C21_SameTreeSameRun ==
  /\ \A i, j \in DOMAIN units :
       (i < j /\ units[i].run = units[j].run) => WalkLess(units[i].path, units[j].path)
  /\ \A j, k \in DOMAIN calls :
       (calls[j].ret # Running /\ calls[k].ret # Running) =>
         /\ OutcomesOf(units, j) = OutcomesOf(units, k)
         /\ calls[j].ret = calls[k].ret

\* two finished runs over the same tree, the first of which had written
\* files: three units each, the same ones
C21_Witness ==
  /\ Len(calls) = 2
  /\ calls[2].ret # Running
  /\ Len(OutcomesOf(units, 1)) >= 3
  /\ \E i \in DOMAIN units : units[i].run = 1 /\ Generated(units[i])
  /\ \E i \in DOMAIN units : units[i].run = 1 /\ Failed(units[i])
  /\ OutcomesOf(units, 1) = OutcomesOf(units, 2)

(***************************************************************************)
(* C22: once the target has started, CPUProfile returns: the target exits  *)
(* on its own or the timer kills it.  It returns nil when the target       *)
(* exited cleanly or was killed, and an error for any other exit; a kill   *)
(* that comes after the exit changes neither the target's status nor what  *)
(* CPUProfile returns.                                                     *)
(***************************************************************************)
C22_ProfileReturns ==
  /\ (prof.target = "running") ~> (prof.at = "returned")
  /\ [](prof.at = "returned" /\ prof.target = "exited" =>
          /\ prof.status \in { Nil, SignalKilled } => prof.ret = Nil
          /\ prof.status \notin { Nil, SignalKilled } => prof.ret = ErrRunningTarget)
  /\ [][(prof.timer = "sleeping" /\ prof'.timer = "done" /\ prof.target = "exited")
          => /\ prof'.target = prof.target
             /\ prof'.status = prof.status
             /\ prof'.ret = prof.ret
             /\ prof'.at = prof.at]_vars

\* a target that would run on was killed by the timer and CPUProfile
\* returned nil
C22_Witness ==
  /\ prof.at = "returned"
  /\ prof.plan = "runs on"
  /\ prof.duration = MaxDuration
  /\ prof.status = SignalKilled
  /\ prof.timer = "done"
  /\ prof.ret = Nil

(***************************************************************************)
(* C23: generateTestForFile checks in the order parse, skip, output        *)
(* directory, collision, creation.  A unit that does not parse fails on    *)
(* that and one without exported functions is skipped, both without any    *)
(* change to the file system, whether or not the companion exists or the   *)
(* output directory is missing.  A unit with exported functions and an     *)
(* output directory fails on the directory when it cannot be made;         *)
(* otherwise the directory is there afterwards, also when the unit then    *)
(* fails on the collision, and only without a collision is a file made.    *)
(***************************************************************************)
C23_CheckOrder ==
  [][UnitStep =>
       LET content == fs[NewUnit.path].content
           dir == StepCall.outputDir
           out == Companion(NewUnit.path, dir)
       IN  /\ ~content.ok => (NewUnit.err = ErrParse /\ fs' = fs)
           /\ HasNoExportedFunc(content) => (Skipped(NewUnit) /\ fs' = fs)
           /\ (HasExportedFunc(content) /\ dir # << >>) =>
                IF MkdirAll(fs, dir).err
                THEN NewUnit.err = ErrMkdir /\ fs' = fs
                ELSE /\ fs'[Abs(dir)].type = "dir"
                     /\ NewUnit.err \in { Nil, ErrExists }
           /\ HasExportedFunc(content) =>
                /\ NewUnit.err = ErrExists <=>
                     (Exists(fs, out) /\ (dir # << >> => ~MkdirAll(fs, dir).err))
                /\ Generated(NewUnit) =>
                     (~Exists(fs, out) /\ fs'[Abs(out)].type = "file")]_vars

\* a unit without exported functions was skipped beside its existing
\* companion, and skipped again with an output directory that is still
\* missing afterwards
C23_Witness ==
  /\ Len(units) >= 2
  /\ Skipped(units[1])
  /\ fs[Companion(units[1].path, << >>)] = FileNode(HandWritten)
  /\ Skipped(units[2])
  /\ calls[units[2].run].outputDir = << nO >>
  /\ calls[units[2].run].ret = Nil
  /\ fs[OutDir].type = "none"

(***************************************************************************)
(* C24: with an output directory the output path is made of that directory *)
(* and the base name of the source alone.  When a run meets a second       *)
(* source with exported functions whose base name it has generated from    *)
(* already, in another directory, the second fails with "test file already *)
(* exists" on the first one's output path and the file system, the first   *)
(* one's output included, stays as it is.                                  *)
(***************************************************************************)
C24_SameBaseNameCollides ==
  [][(UnitStep /\ StepCall.outputDir # << >>) =>
       /\ NewUnit.out # << >> =>
            NewUnit.out = Join(StepCall.outputDir,
                               TrimSuffix(Base(NewUnit.path), DotGo) \o TestDotGo)
       /\ \A i \in DOMAIN units :
            ( /\ units[i].run = NewUnit.run
              /\ Generated(units[i])
              /\ Base(units[i].path) = Base(NewUnit.path)
              /\ units[i].path # NewUnit.path
              /\ HasExportedFunc(fs[NewUnit.path].content) )
            => /\ NewUnit.err = ErrExists
               /\ NewUnit.out = units[i].out
               /\ fs' = fs]_vars

\* .h/a.go was generated into the output directory and a.go of the same
\* run was refused on the same path
C24_Witness ==
  \E i, j \in DOMAIN units :
    /\ i < j
    /\ units[i].run = units[j].run
    /\ calls[units[i].run].outputDir = << nO >>
    /\ units[i].path = Join(Hidden, nA)
    /\ units[j].path = Join(Root, nA)
    /\ Generated(units[i])
    /\ units[j].err = ErrExists
    /\ units[j].out = units[i].out
    /\ fs[Abs(units[i].out)].content.kind = "rendered"

TestTestDotGo == << "_", "t", "e", "s", "t" >> \o TestDotGo

(***************************************************************************)
(* C26: across any sequence of runs, a file the tool writes is named       *)
(* <stem>_test.go for the source <stem>.go of the call that wrote it, a    *)
(* source never ends in "_test.go", so a generated file is never taken as  *)
(* a source and no "*_test_test.go" file is created.                       *)
(***************************************************************************)
C26_GeneratedNames ==
  [][ /\ \A p \in Universe :
           Written(p) =>
             /\ UnitStep
             /\ Generated(NewUnit)
             /\ p = Abs(NewUnit.out)
             /\ Base(p) = TrimSuffix(Base(NewUnit.path), DotGo) \o TestDotGo
             /\ HasSuffix(Base(p), TestDotGo)
             /\ ~HasSuffix(Base(p), TestTestDotGo)
      /\ \A j \in DOMAIN units' :
           /\ SourceName(units'[j].path)
           /\ \A i \in DOMAIN units' :
                Generated(units'[i]) => units'[j].path # Abs(units'[i].out)
    ]_vars

\* a later run walks a directory holding a file generated by an earlier run
\* and generates nothing from it
C26_Witness ==
  \E i \in DOMAIN units :
    /\ Generated(units[i])
    /\ \E k \in DOMAIN calls :
         /\ k > units[i].run
         /\ DirRunDone(k)
         /\ calls[k].ret = Nil
         /\ Abs(calls[k].path) = Dir(Abs(units[i].out))
         /\ ~Processed(k, Abs(units[i].out))

\* the handler neither created a file, nor redirected, nor ran its operation
Untouched(i) ==
  /\ srv.served[i].temp = 0
  /\ ~srv.served[i].redirected
  /\ ~srv.served[i].ran
  /\ srv.temp[i].state = "none"

(***************************************************************************)
(* C27: with requests handled one at a time, whenever a handler has        *)
(* returned (after success, an operation error or an output read error)    *)
(* os.Stdout is the stream it was before the request and the temporary     *)
(* capture file of the request has been removed.                           *)
(***************************************************************************)
C27_StdoutRestoredFileRemoved ==
  /\ srv.at = "idle" =>
       /\ srv.stdout = Original
       /\ \A n \in 1..MaxRequests : srv.temp[n].state \in { "none", "removed" }
  /\ \A i \in DOMAIN srv.served :
       srv.served[i].temp # 0 => srv.temp[srv.served[i].temp].state = "removed"

\* one request returned after an operation error and one after a read error
C27_Witness ==
  /\ srv.at = "idle"
  /\ \E i, j \in DOMAIN srv.served :
       /\ srv.served[i].outcome = "operation error"
       /\ srv.served[i].printed > 0
       /\ srv.served[j].outcome = "read error"

\* a request returned after success with its captured output
C27_WitnessSuccess ==
  /\ srv.at = "idle"
  /\ \E i \in DOMAIN srv.served :
       /\ srv.served[i].outcome = "success"
       /\ Len(srv.served[i].output) > 0

(***************************************************************************)
(* C28: a handler validates before it acts: a request with a method other  *)
(* than the handler's gets 405, a request to an operation handler with an  *)
(* empty path gets 400 once its method is accepted, in both cases without  *)
(* the operation run, os.Stdout redirected or a temporary file created;    *)
(* every request handled has received exactly one response.                *)
(***************************************************************************)
C28_ValidatesBeforeActing ==
  /\ \A i \in DOMAIN srv.served :
       LET r == srv.served[i]
       IN  /\ r.method # RequiredMethod(r.handler) =>
                r.status = 405 /\ Untouched(i)
           /\ (r.handler # "healthCheckHandler" /\ r.method = "POST" /\ r.path = "") =>
                r.status = 400 /\ Untouched(i)
           /\ r.responses = 1
  /\ srv.cur # NoRequest => srv.cur.responses = 0

\* a request with the wrong method and one with an empty path were answered
C28_Witness ==
  \E i, j \in DOMAIN srv.served :
    /\ srv.served[i].method # RequiredMethod(srv.served[i].handler)
    /\ srv.served[i].status = 405
    /\ srv.served[j].method = "POST"
    /\ srv.served[j].formOk
    /\ srv.served[j].path = ""
    /\ srv.served[j].status = 400

(***************************************************************************)
(* C29: CheckOutdated, Update, CheckSecurity and AnalyzeCoverage, called   *)
(* one after another, work in the project directory and leave the working  *)
(* directory as they found it: while an operation runs its commands the    *)
(* working directory is the project, and after it has returned, with nil   *)
(* or with an error from any step, it is the directory of before the call. *)
(***************************************************************************)
C29_WorkingDirectoryRestored ==
  /\ probe.at = "in" => wd = probe.cur.absPath
  /\ \A k \in DOMAIN probe.done : probe.done[k].after = probe.done[k].originalDir
  /\ probe.at = "idle" /\ probe.done # << >> =>
       wd = probe.done[Len(probe.done)].originalDir

\* one operation returned nil from a project that is not the directory it
\* was called in, and one failed at a command run inside the project
C29_Witness ==
  /\ probe.at = "idle"
  /\ \E j, k \in DOMAIN probe.done :
       /\ probe.done[j].ret = Nil
       /\ probe.done[j].absPath # probe.done[j].originalDir
       /\ probe.done[k].ret = ErrCommand
       /\ probe.done[k].absPath # probe.done[k].originalDir
       /\ probe.done[k].step > 1

\* p exists in the tree below the root given to AnalyzeStructure
InTree(p) ==
  LET root == Abs(probe.path)
  IN  /\ Len(p) >= Len(root)
      /\ SubSeq(p, 1, Len(root)) = root
      /\ fs[p].type # "none"

\* neither p nor a directory of the tree above it is dot-prefixed
Visible(p) == \A i \in Len(Abs(probe.path))..Len(p) : p[i][1] # "."

VisibleDirs == { p \in Universe : InTree(p) /\ Visible(p) /\ fs[p].type = "dir" }
VisibleGoFiles ==
  { p \in Universe :
      InTree(p) /\ Visible(p) /\ fs[p].type = "file" /\ HasSuffix(Base(p), DotGo) }

(***************************************************************************)
(* C30: for a tree rooted at a directory, AnalyzeStructure counts nothing  *)
(* dot-prefixed and nothing beneath a dot-prefixed directory: Directories  *)
(* is the number of non-hidden directories, the root included, Go files    *)
(* the number of non-hidden ".go" files, Packages the number of distinct   *)
(* directories directly holding a counted Go file, and Packages exceeds    *)
(* neither Go files nor Directories.                                       *)
(***************************************************************************)
C30_StructureCounts ==
  (probe.done /\ IsDir(fs, Abs(probe.path))) =>
    /\ probe.ret = Nil
    /\ probe.dirCount = Cardinality(VisibleDirs)
    /\ probe.fileCount = Cardinality(VisibleGoFiles)
    /\ probe.pkgMap = { Dir(p) : p \in VisibleGoFiles }
    /\ probe.packages = Cardinality({ Dir(p) : p \in VisibleGoFiles })
    /\ probe.packages <= probe.fileCount
    /\ probe.packages <= probe.dirCount

\* a tree with a hidden file, a Go file beneath a hidden directory and two
\* Go files in one of its two packages
C30_Witness ==
  /\ probe.done
  /\ probe.path = << >>
  /\ fs[Join(Root, nC)].type = "file"
  /\ fs[Join(Hidden, nA)].type = "file"
  /\ probe.dirCount = 3
  /\ probe.fileCount = 3
  /\ probe.packages = 2

====
